---- MODULE Spec2Model ----
(***************************************************************************)
(* Import validation pipeline (lib/csvParser.ts, upload/CSVUpload.tsx) and *)
(* heuristic insights engine (lib/aiInsights.ts) of the factory dashboard. *)
(*                                                                         *)
(* Numbers are JavaScript Numbers: IEEE-754 doubles with round-to-nearest- *)
(* even after every operation, NaN and the two infinities.  A finite value *)
(* is s * m * 2^e with m an odd natural kept as a little-endian sequence   *)
(* of base-2^15 limbs (zero is s = 0, m = <<>>, e = 0), so equal numbers   *)
(* are equal values.  Exponents stay far inside the normal range for the   *)
(* inputs considered, so subnormals and overflow to infinity by rounding   *)
(* are not modelled.                                                       *)
(*                                                                         *)
(* Raw cell texts are sequences of one-character strings, because the code *)
(* parses them character by character; produced messages are strings.      *)
(***************************************************************************)
EXTENDS Integers, Sequences, FiniteSets, TLC

(***************************************************************************)
(* Naturals of arbitrary size                                              *)
(***************************************************************************)
Base == 32768
LimbBits == 15

RECURSIVE BNorm(_)
BNorm(a) == IF a = <<>> THEN <<>>
            ELSE IF a[Len(a)] = 0 THEN BNorm(SubSeq(a, 1, Len(a) - 1))
            ELSE a

RECURSIVE BFromInt(_)
BFromInt(n) == IF n = 0 THEN <<>> ELSE <<n % Base>> \o BFromInt(n \div Base)

RECURSIVE BToInt(_)
BToInt(a) == IF a = <<>> THEN 0 ELSE a[1] + Base * BToInt(Tail(a))

BCmp(a, b) ==
  LET RECURSIVE From(_)
      From(i) == IF i = 0 THEN 0
                 ELSE IF a[i] < b[i] THEN -1
                 ELSE IF a[i] > b[i] THEN 1
                 ELSE From(i - 1)
  IN  IF Len(a) < Len(b) THEN -1
      ELSE IF Len(a) > Len(b) THEN 1
      ELSE From(Len(a))

Limb(a, i) == IF i <= Len(a) THEN a[i] ELSE 0

BAdd(a, b) ==
  LET RECURSIVE From(_, _)
      From(i, carry) ==
        IF i > Len(a) /\ i > Len(b)
        THEN (IF carry = 0 THEN <<>> ELSE <<carry>>)
        ELSE LET t == Limb(a, i) + Limb(b, i) + carry
             IN  <<t % Base>> \o From(i + 1, t \div Base)
  IN  From(1, 0)

\* a - b for a >= b
BSub(a, b) ==
  LET RECURSIVE From(_, _)
      From(i, borrow) ==
        IF i > Len(a) THEN <<>>
        ELSE LET t == a[i] - Limb(b, i) - borrow
             IN  IF t < 0 THEN <<t + Base>> \o From(i + 1, 1)
                 ELSE <<t>> \o From(i + 1, 0)
  IN  BNorm(From(1, 0))

\* a * k for 0 <= k < Base
BMulSmall(a, k) ==
  LET RECURSIVE From(_, _)
      From(i, carry) ==
        IF i > Len(a) THEN (IF carry = 0 THEN <<>> ELSE <<carry>>)
        ELSE LET t == a[i] * k + carry
             IN  <<t % Base>> \o From(i + 1, t \div Base)
  IN  IF k = 0 THEN <<>> ELSE From(1, 0)

BShiftLimbs(a, n) == IF a = <<>> THEN <<>> ELSE [i \in 1..n |-> 0] \o a

RECURSIVE BMul(_, _)
BMul(a, b) ==
  IF b = <<>> \/ a = <<>> THEN <<>>
  ELSE BAdd(BMulSmall(a, b[1]), BShiftLimbs(BMul(a, Tail(b)), 1))

\* floor(a / k) for 0 < k < Base
BDivSmall(a, k) ==
  LET RECURSIVE From(_, _)
      From(i, rem) ==
        IF i = 0 THEN <<>>
        ELSE LET t == rem * Base + a[i]
             IN  From(i - 1, t % k) \o <<t \div k>>
  IN  BNorm(From(Len(a), 0))

BModSmall(a, k) ==
  LET RECURSIVE From(_, _)
      From(i, rem) == IF i = 0 THEN rem ELSE From(i - 1, (rem * Base + a[i]) % k)
  IN  From(Len(a), 0)

\* a * 2^n
BShl(a, n) == BShiftLimbs(BMulSmall(a, 2 ^ (n % LimbBits)), n \div LimbBits)

\* floor(a / 2^n)
BShr(a, n) ==
  IF n \div LimbBits >= Len(a) THEN <<>>
  ELSE BDivSmall(SubSeq(a, n \div LimbBits + 1, Len(a)), 2 ^ (n % LimbBits))

\* a mod 2^n
BLow(a, n) ==
  IF n \div LimbBits >= Len(a) THEN a
  ELSE BNorm(SubSeq(a, 1, n \div LimbBits)
             \o <<a[n \div LimbBits + 1] % (2 ^ (n % LimbBits))>>)

RECURSIVE IntBitLen(_)
IntBitLen(n) == IF n = 0 THEN 0 ELSE 1 + IntBitLen(n \div 2)

BBitLen(a) == IF a = <<>> THEN 0 ELSE LimbBits * (Len(a) - 1) + IntBitLen(a[Len(a)])

BBit(a, i) == (Limb(a, i \div LimbBits + 1) \div (2 ^ (i % LimbBits))) % 2

BIsOdd(a) == a # <<>> /\ a[1] % 2 = 1

RECURSIVE IntTrailingZeros(_)
IntTrailingZeros(n) == IF n % 2 = 1 THEN 0 ELSE 1 + IntTrailingZeros(n \div 2)

RECURSIVE BTrailingZeros(_)
BTrailingZeros(a) ==
  IF a[1] = 0 THEN LimbBits + BTrailingZeros(Tail(a)) ELSE IntTrailingZeros(a[1])

\* One step of long division: bring bit i of a down into the remainder.
BDivStep(a, b, i, st) ==
  LET r2 == BAdd(BMulSmall(st.r, 2), BFromInt(BBit(a, i)))
  IN  IF BCmp(r2, b) >= 0
      THEN [q |-> BAdd(BMulSmall(st.q, 2), <<1>>), r |-> BSub(r2, b)]
      ELSE [q |-> BMulSmall(st.q, 2), r |-> r2]

\* Long division over bits hi-1 .. lo of a, from the quotient and remainder st
\* reached above bit hi.  The range is halved, and the upper half is evaluated
\* (by the test on it) before the lower half starts, which keeps TLC's
\* evaluation stack shallow.
RECURSIVE BDivRange(_, _, _, _, _)
BDivRange(a, b, hi, lo, st) ==
  IF hi = lo THEN st
  ELSE IF hi = lo + 1 THEN BDivStep(a, b, lo, st)
  ELSE LET mid == (hi + lo) \div 2
           upper == BDivRange(a, b, hi, mid, st)
       IN  IF BCmp(upper.r, b) < 0 THEN BDivRange(a, b, mid, lo, upper) ELSE upper

\* [q |-> floor(a / b), r |-> a mod b] for b > 0
BDivMod(a, b) ==
  LET la == BBitLen(a)
      lb == BBitLen(b)
  IN  IF la < lb THEN [q |-> <<>>, r |-> a]
      ELSE BDivRange(a, b, la - lb + 1, 0, [q |-> <<>>, r |-> BShr(a, la - lb + 1)])

\* n < 10000 as four decimal digits
Pad4(n) == ToString(n \div 1000) \o ToString((n \div 100) % 10)
           \o ToString((n \div 10) % 10) \o ToString(n % 10)

\* a in decimal, four digits per step
RECURSIVE BToDec(_)
BToDec(a) ==
  IF Len(a) <= 1 THEN ToString(BToInt(a))
  ELSE BToDec(BDivSmall(a, 10000)) \o Pad4(BModSmall(a, 10000))

\* k^n for 0 < k < Base, by squaring
RECURSIVE BPow(_, _)
BPow(k, n) ==
  IF n = 0 THEN <<1>>
  ELSE IF n % 2 = 1 THEN BMulSmall(BPow(k, n - 1), k)
  ELSE LET h == BPow(k, n \div 2) IN BMul(h, h)

(***************************************************************************)
(* JavaScript Numbers                                                      *)
(***************************************************************************)
MantBits == 53

NaN == [k |-> "nan", s |-> 0, m |-> <<>>, e |-> 0]
Inf(s) == [k |-> "inf", s |-> s, m |-> <<>>, e |-> 0]
Zero == [k |-> "fin", s |-> 0, m |-> <<>>, e |-> 0]

IsNaN(x) == x.k = "nan"
IsFinite(x) == x.k = "fin"

\* s * m * 2^e with the trailing zero bits of m moved into the exponent
Canon(s, m, e) ==
  IF m = <<>> \/ s = 0 THEN Zero
  ELSE LET z == BTrailingZeros(m)
       IN  [k |-> "fin", s |-> s, m |-> BShr(m, z), e |-> e + z]

\* Round s * m * 2^e (plus a nonzero amount below m's last bit iff sticky) to
\* the nearest double, ties to even.  sticky is only used with BBitLen(m) > 53.
Round53(s, m, e, sticky) ==
  LET len == BBitLen(m)
  IN  IF len <= MantBits THEN Canon(s, m, e)
      ELSE LET d == len - MantBits
               q == BShr(m, d)
               c == BCmp(BLow(m, d), BShl(<<1>>, d - 1))
               up == c > 0 \/ (c = 0 /\ (sticky \/ BIsOdd(q)))
           IN  Canon(s, IF up THEN BAdd(q, <<1>>) ELSE q, e + d)

\* The double nearest to s * (n / d) * 2^e, for naturals n and d > 0
RatRound(s, n, d, e) ==
  IF n = <<>> THEN Zero
  ELSE IF d = <<1>> THEN Round53(s, n, e, FALSE)
  ELSE LET want == MantBits + 3 + BBitLen(d) - BBitLen(n)
           sh == IF want > 0 THEN want ELSE 0
           qr == BDivMod(BShl(n, sh), d)
       IN  Round53(s, qr.q, e - sh, qr.r # <<>>)

FromInt(n) ==
  IF n = 0 THEN Zero
  ELSE IF n < 0 THEN Canon(-1, BFromInt(-n), 0)
  ELSE Canon(1, BFromInt(n), 0)

FNeg(a) == [a EXCEPT !.s = -a.s]
MathAbs(a) == IF a.s < 0 THEN FNeg(a) ELSE a

\* magnitudes of two nonzero finite numbers: -1, 0, 1
MagCmp(a, b) ==
  LET ta == BBitLen(a.m) + a.e
      tb == BBitLen(b.m) + b.e
      lo == IF a.e < b.e THEN a.e ELSE b.e
  IN  IF ta < tb THEN -1
      ELSE IF ta > tb THEN 1
      ELSE BCmp(BShl(a.m, a.e - lo), BShl(b.m, b.e - lo))

\* a < b (false when either is NaN)
FLt(a, b) ==
  IF IsNaN(a) \/ IsNaN(b) THEN FALSE
  ELSE IF a.k = "inf" \/ b.k = "inf"
       THEN IF a.k = "inf" /\ b.k = "inf" THEN a.s < b.s
            ELSE IF a.k = "inf" THEN a.s < 0
            ELSE b.s > 0
  ELSE IF a.s # b.s THEN a.s < b.s
  ELSE IF a.s = 0 THEN FALSE
  ELSE IF a.s > 0 THEN MagCmp(a, b) < 0
  ELSE MagCmp(a, b) > 0

FGt(a, b) == FLt(b, a)

FAdd(a, b) ==
  IF IsNaN(a) \/ IsNaN(b) THEN NaN
  ELSE IF a.k = "inf" /\ b.k = "inf" THEN (IF a.s = b.s THEN a ELSE NaN)
  ELSE IF a.k = "inf" THEN a
  ELSE IF b.k = "inf" THEN b
  ELSE IF a.s = 0 THEN b
  ELSE IF b.s = 0 THEN a
  ELSE LET lo == IF a.e < b.e THEN a.e ELSE b.e
           am == BShl(a.m, a.e - lo)
           bm == BShl(b.m, b.e - lo)
           c == BCmp(am, bm)
       IN  IF a.s = b.s THEN Round53(a.s, BAdd(am, bm), lo, FALSE)
           ELSE IF c = 0 THEN Zero
           ELSE IF c > 0 THEN Round53(a.s, BSub(am, bm), lo, FALSE)
           ELSE Round53(b.s, BSub(bm, am), lo, FALSE)

FSub(a, b) == FAdd(a, FNeg(b))

FMul(a, b) ==
  IF IsNaN(a) \/ IsNaN(b) THEN NaN
  ELSE IF a.k = "inf" \/ b.k = "inf"
       THEN (IF a.s = 0 \/ b.s = 0 THEN NaN ELSE Inf(a.s * b.s))
  ELSE IF a.s = 0 \/ b.s = 0 THEN Zero
  ELSE Round53(a.s * b.s, BMul(a.m, b.m), a.e + b.e, FALSE)

\* a zero divisor is +0: no operation of the program yields -0 as a divisor
FDiv(a, b) ==
  IF IsNaN(a) \/ IsNaN(b) THEN NaN
  ELSE IF a.k = "inf" THEN (IF b.k = "inf" THEN NaN
                            ELSE Inf(IF b.s < 0 THEN -a.s ELSE a.s))
  ELSE IF b.k = "inf" THEN Zero
  ELSE IF b.s = 0 THEN (IF a.s = 0 THEN NaN ELSE Inf(a.s))
  ELSE IF a.s = 0 THEN Zero
  ELSE RatRound(a.s * b.s, a.m, b.m, a.e - b.e)

\* the decimal literal n / 10^p
Dec(n, p) == FDiv(FromInt(n), FromInt(10 ^ p))

MathMax(a, b) ==
  IF IsNaN(a) \/ IsNaN(b) THEN NaN ELSE IF FLt(a, b) THEN b ELSE a

\* Math.round: floor(x + 1/2)
MathRound(x) ==
  IF x.k # "fin" \/ x.e >= 0 THEN x
  ELSE LET k == -x.e
           half == BShl(<<1>>, k - 1)
       IN  IF x.s > 0 THEN Canon(1, BShr(BAdd(x.m, half), k), 0)
           ELSE IF BCmp(x.m, half) < 0 THEN Zero
           ELSE Canon(-1, BShr(BAdd(BSub(x.m, half), BSub(BShl(<<1>>, k), <<1>>)), k), 0)

\* ToBoolean of a Number, and the idiom  x || 0
Truthy(x) == ~IsNaN(x) /\ x.s # 0
OrZero(x) == IF Truthy(x) THEN x ELSE Zero

\* an integer-valued finite number as an integer (small magnitudes only)
ToInt(x) == x.s * BToInt(BShl(x.m, x.e))

(***************************************************************************)
(* Texts, and the conversions between texts and Numbers                    *)
(***************************************************************************)
DigitChars == <<"0", "1", "2", "3", "4", "5", "6", "7", "8", "9">>
HexChars == <<"0", "1", "2", "3", "4", "5", "6", "7", "8", "9",
              "a", "b", "c", "d", "e", "f">>
HexUpper == <<"0", "1", "2", "3", "4", "5", "6", "7", "8", "9",
              "A", "B", "C", "D", "E", "F">>

IsDigit(c) == \E d \in 1..10 : DigitChars[d] = c
DigitVal(c) == (CHOOSE d \in 1..10 : DigitChars[d] = c) - 1
IsHexDigit(c) == \E d \in 1..16 : HexChars[d] = c \/ HexUpper[d] = c
HexVal(c) == (CHOOSE d \in 1..16 : HexChars[d] = c \/ HexUpper[d] = c) - 1
IsWhite(c) == c \in {" ", "\t", "\n", "\r"}

CharAt(str, i) == IF i >= 1 /\ i <= Len(str) THEN str[i] ELSE ""

\* the characters of a text as one string
RECURSIVE JoinChars(_)
JoinChars(str) == IF str = <<>> THEN "" ELSE str[1] \o JoinChars(Tail(str))

\* a cell of a parsed row: a text, or undefined when the row has no such key
Undefined == [t |-> "undefined", s |-> <<>>]
Str(chars) == [t |-> "string", s |-> chars]

\* ToBoolean: what  !row.field  and  row.field ? a : b  test
ToBoolean(v) == v.t = "string" /\ v.s # <<>>
\* ToString of a cell
ToStr(v) == IF v.t = "undefined"
            THEN <<"u", "n", "d", "e", "f", "i", "n", "e", "d">>
            ELSE v.s

RECURSIVE SkipWhite(_, _)
SkipWhite(str, i) ==
  IF i <= Len(str) /\ IsWhite(str[i]) THEN SkipWhite(str, i + 1) ELSE i

\* the index after the run of decimal digits that starts at i
RECURSIVE DigitRunEnd(_, _)
DigitRunEnd(str, i) ==
  IF i <= Len(str) /\ IsDigit(str[i]) THEN DigitRunEnd(str, i + 1) ELSE i

RECURSIVE HexRunEnd(_, _)
HexRunEnd(str, i) ==
  IF i <= Len(str) /\ IsHexDigit(str[i]) THEN HexRunEnd(str, i + 1) ELSE i

\* the natural written by the decimal digits among str[i .. j-1], after acc
\* the natural written by the decimal digits among str[i .. j-1]
RECURSIVE DigitsValue(_, _, _)
DigitsValue(str, i, j) ==
  IF i >= j THEN <<>>
  ELSE IF IsDigit(str[j - 1])
       THEN BAdd(BMulSmall(DigitsValue(str, i, j - 1), 10),
                 BFromInt(DigitVal(str[j - 1])))
       ELSE DigitsValue(str, i, j - 1)

RECURSIVE HexValue(_, _, _)
HexValue(str, i, j) ==
  IF i >= j THEN <<>>
  ELSE BAdd(BMulSmall(HexValue(str, i, j - 1), 16), BFromInt(HexVal(str[j - 1])))

InfinityChars == <<"I", "n", "f", "i", "n", "i", "t", "y">>

\* parseFloat: the longest prefix of the trimmed text that is a decimal literal
parseFloat(v) ==
  LET str == ToStr(v)
      i0 == SkipWhite(str, 1)
      sign == IF CharAt(str, i0) = "-" THEN -1 ELSE 1
      i1 == IF CharAt(str, i0) \in {"+", "-"} THEN i0 + 1 ELSE i0
      j == DigitRunEnd(str, i1)
      hasDot == CharAt(str, j) = "."
      k == IF hasDot THEN DigitRunEnd(str, j + 1) ELSE j
      nFrac == IF hasDot THEN k - (j + 1) ELSE 0
      hasE == CharAt(str, k) \in {"e", "E"}
      x0 == IF CharAt(str, k + 1) \in {"+", "-"} THEN k + 2 ELSE k + 1
      x1 == DigitRunEnd(str, x0)
      expo == IF hasE /\ x1 > x0
              THEN (IF CharAt(str, k + 1) = "-" THEN -1 ELSE 1)
                   * BToInt(DigitsValue(str, x0, x1))
              ELSE 0
      mant == DigitsValue(str, i1, k)
      e10 == expo - nFrac
  IN  IF i1 + 7 <= Len(str) /\ SubSeq(str, i1, i1 + 7) = InfinityChars THEN Inf(sign)
      ELSE IF (j - i1) + nFrac = 0 THEN NaN
      ELSE IF e10 >= 0 THEN RatRound(sign, BMul(mant, BPow(10, e10)), <<1>>, 0)
      ELSE RatRound(sign, mant, BPow(10, -e10), 0)

\* parseInt without a radix: decimal, or hexadecimal after 0x
parseInt(v) ==
  LET str == ToStr(v)
      i0 == SkipWhite(str, 1)
      sign == IF CharAt(str, i0) = "-" THEN -1 ELSE 1
      i1 == IF CharAt(str, i0) \in {"+", "-"} THEN i0 + 1 ELSE i0
      hex == CharAt(str, i1) = "0" /\ CharAt(str, i1 + 1) \in {"x", "X"}
      j == IF hex THEN HexRunEnd(str, i1 + 2) ELSE DigitRunEnd(str, i1)
  IN  IF hex THEN (IF j = i1 + 2 THEN NaN
                   ELSE RatRound(sign, HexValue(str, i1 + 2, j), <<1>>, 0))
      ELSE IF j = i1 THEN NaN
      ELSE RatRound(sign, DigitsValue(str, i1, j), <<1>>, 0)

\* the number of decimal digits of a (0 for zero)
RECURSIVE BDecLen(_)
BDecLen(a) ==
  IF Len(a) >= 2 THEN 4 + BDecLen(BDivSmall(a, 10000))
  ELSE IF a = <<>> THEN 0
  ELSE IF a[1] < 10 THEN 1
  ELSE IF a[1] < 100 THEN 2
  ELSE IF a[1] < 1000 THEN 3
  ELSE IF a[1] < 10000 THEN 4
  ELSE 5

\* the last n decimal digits of a, zero-padded, as a string
RECURSIVE LowDigits(_, _)
LowDigits(a, n) ==
  IF n = 0 THEN ""
  ELSE IF n >= 4 THEN LowDigits(BDivSmall(a, 10000), n - 4) \o Pad4(BModSmall(a, 10000))
  ELSE LowDigits(BDivSmall(a, 10), n - 1) \o ToString(BModSmall(a, 10))

\* a / 10^n rounded to the nearest natural (ties to even)
RoundDiv10(a, n) ==
  IF n = 0 THEN a
  ELSE LET qr == BDivMod(a, BPow(10, n))
           c == BCmp(BMulSmall(qr.r, 2), BPow(10, n))
       IN  IF c > 0 \/ (c = 0 /\ BIsOdd(qr.q)) THEN BAdd(qr.q, <<1>>) ELSE qr.q

RECURSIVE StripZeros(_, _)
\* v / 10^k with the trailing zero digits of the fraction removed: <<v', k'>>
StripZeros(v, k) ==
  IF k >= 4 /\ BModSmall(v, 10000) = 0 THEN StripZeros(BDivSmall(v, 10000), k - 4)
  ELSE IF k > 0 /\ BModSmall(v, 10) = 0 THEN StripZeros(BDivSmall(v, 10), k - 1)
  ELSE <<v, k>>

\* the decimal  v / 10^k  written out
DecimalText(v, k) ==
  LET t == StripZeros(v, k)
      p == BPow(10, t[2])
  IN  IF t[2] = 0 THEN BToDec(t[1])
      ELSE BToDec(BDivMod(t[1], p).q) \o "." \o LowDigits(BDivMod(t[1], p).r, t[2])

\* The shortest decimal that reads back as x = m / 2^k exactly: the exact
\* expansion big / 10^k cut to n significant digits, for the least such n.
RECURSIVE ShortestFrom(_, _, _, _, _)
ShortestFrom(x, big, k, len, n) ==
  LET cut == BMul(RoundDiv10(big, len - n), BPow(10, len - n))
  IN  IF n >= len \/ RatRound(1, cut, BPow(10, k), 0) = x THEN DecimalText(cut, k)
      ELSE ShortestFrom(x, big, k, len, n + 1)

\* Number::toString for magnitudes written without an exponent (1e-6 .. 1e21)
NumberToString(x) ==
  IF IsNaN(x) THEN "NaN"
  ELSE IF x.k = "inf" THEN (IF x.s < 0 THEN "-Infinity" ELSE "Infinity")
  ELSE IF x.s = 0 THEN "0"
  ELSE (IF x.s < 0 THEN "-" ELSE "")
       \o (IF x.e >= 0 THEN BToDec(BShl(x.m, x.e))
           ELSE LET big == BMul(x.m, BPow(5, -x.e))
                IN  ShortestFrom(MathAbs(x), big, -x.e, BDecLen(big), 1))

\* Number.prototype.toFixed(1): n / 10 for the integer n nearest to 10 x,
\* the larger n on a tie
toFixed1(x) ==
  IF x.k # "fin" THEN NumberToString(x)
  ELSE LET n == IF x.e >= 0 THEN BMulSmall(BShl(x.m, x.e), 10)
                ELSE BShr(BAdd(BMulSmall(x.m, 20), BShl(<<1>>, -x.e)), 1 - x.e)
       IN  (IF x.s < 0 THEN "-" ELSE "")
           \o BToDec(BDivSmall(n, 10)) \o "." \o ToString(BModSmall(n, 10))

(***************************************************************************)
(* Dates.  A time value is UTC calendar fields; getTime() orders them as   *)
(* the pair <<day number, millisecond of the day>>.  Date.parse is defined *)
(* by the language for the ISO forms below and left to the implementation  *)
(* for every other text; the only other texts among the inputs considered  *)
(* hold no digit, and every implementation rejects those.                  *)
(***************************************************************************)
InvalidDate ==
  [ok |-> FALSE, y |-> 0, mo |-> 0, d |-> 0, h |-> 0, mi |-> 0, sec |-> 0, ms |-> 0]

IsLeap(y) == (y % 4 = 0 /\ y % 100 # 0) \/ y % 400 = 0

DaysInMonth(y, mo) ==
  IF mo \in {4, 6, 9, 11} THEN 30
  ELSE IF mo = 2 THEN (IF IsLeap(y) THEN 29 ELSE 28)
  ELSE 31

AllDigits(str, i, j) == \A p \in i..j : IsDigit(CharAt(str, p))
NumAt(str, i, j) == BToInt(DigitsValue(str, i, j + 1))

\* new Date(text) for YYYY, YYYY-MM, YYYY-MM-DD and, after a full date,
\* THH:mmZ, THH:mm:ssZ or THH:mm:ss.sssZ
DateParse(str) ==
  LET n == Len(str)
      shapeOk ==
        /\ n \in {4, 7, 10, 17, 20, 24}
        /\ AllDigits(str, 1, 4)
        /\ n >= 7 => (str[5] = "-" /\ AllDigits(str, 6, 7))
        /\ n >= 10 => (str[8] = "-" /\ AllDigits(str, 9, 10))
        /\ n >= 17 => (/\ str[11] = "T" /\ AllDigits(str, 12, 13)
                       /\ str[14] = ":" /\ AllDigits(str, 15, 16)
                       /\ str[n] = "Z")
        /\ n >= 20 => (str[17] = ":" /\ AllDigits(str, 18, 19))
        /\ n >= 24 => (str[20] = "." /\ AllDigits(str, 21, 23))
      tv == [ok |-> TRUE,
             y |-> NumAt(str, 1, 4),
             mo |-> IF n >= 7 THEN NumAt(str, 6, 7) ELSE 1,
             d |-> IF n >= 10 THEN NumAt(str, 9, 10) ELSE 1,
             h |-> IF n >= 17 THEN NumAt(str, 12, 13) ELSE 0,
             mi |-> IF n >= 17 THEN NumAt(str, 15, 16) ELSE 0,
             sec |-> IF n >= 20 THEN NumAt(str, 18, 19) ELSE 0,
             ms |-> IF n >= 24 THEN NumAt(str, 21, 23) ELSE 0]
  IN  IF shapeOk /\ tv.mo \in 1..12 /\ tv.d \in 1..DaysInMonth(tv.y, tv.mo)
         /\ tv.h <= 23 /\ tv.mi <= 59 /\ tv.sec <= 59
      THEN tv ELSE InvalidDate

D2(n) == <<DigitChars[(n \div 10) + 1], DigitChars[(n % 10) + 1]>>

\* Date.prototype.toISOString of a valid time value (it throws on an invalid
\* one: the callers test tv.ok)
toISOString(tv) ==
  D2(tv.y \div 100) \o D2(tv.y % 100) \o <<"-">> \o D2(tv.mo) \o <<"-">> \o D2(tv.d)
  \o <<"T">> \o D2(tv.h) \o <<":">> \o D2(tv.mi) \o <<":">> \o D2(tv.sec)
  \o <<".", DigitChars[(tv.ms \div 100) + 1]>> \o D2(tv.ms % 100) \o <<"Z">>

\* days from 0000-03-01 to the date, proleptic Gregorian
DayNumber(tv) ==
  LET yy == IF tv.mo <= 2 THEN tv.y - 1 ELSE tv.y
      mm == IF tv.mo <= 2 THEN tv.mo + 9 ELSE tv.mo - 3
  IN  365 * yy + (yy \div 4) - (yy \div 100) + (yy \div 400) + ((153 * mm + 2) \div 5) + tv.d - 1

\* getTime(), as <<day, millisecond of the day>>
getTime(tv) == <<DayNumber(tv), ((tv.h * 60 + tv.mi) * 60 + tv.sec) * 1000 + tv.ms>>

(***************************************************************************)
(* lib/csvParser.ts: the rows of an upload and how each kind reads them.   *)
(* A row holds one cell per column of its kind; a column the file lacks is *)
(* read as Undefined.                                                      *)
(***************************************************************************)
DataTypes == {"production", "inventory", "sales", "workers"}

Null == [k |-> "null", s |-> 0, m |-> <<>>, e |-> 0]

NoResult == [threw |-> FALSE, data |-> <<>>, errors |-> <<>>, warnings |-> <<>>]

\* the three ways one pass of a forEach callback ends
Rejected(msg) == [NoResult EXCEPT !.errors = <<msg>>]
Accepted(record, warns) == [NoResult EXCEPT !.data = <<record>>, !.warnings = warns]
Thrown == [NoResult EXCEPT !.threw = TRUE]

RowLabel(index) == "Row " \o ToString(index + 1)

\* the production callback with orderId among the required fields
productionRowOrderRequired(row, index) ==
  IF ~ToBoolean(row.date) \/ ~ToBoolean(row.productType) \/ ~ToBoolean(row.quantity)
     \/ ~ToBoolean(row.orderId)
  THEN Rejected(RowLabel(index) \o ": Missing required fields (date, productType, quantity)")
  ELSE IF ~DateParse(ToStr(row.date)).ok THEN Thrown
  ELSE LET push(record) ==
             Accepted(record,
                      IF FGt(record.quantity, record.target) /\ FGt(record.target, Zero)
                      THEN <<RowLabel(index) \o ": Quantity exceeds target">>
                      ELSE <<>>)
       IN  push([date |-> toISOString(DateParse(ToStr(row.date))),
                 productType |-> JoinChars(row.productType.s),
                 quantity |-> OrZero(parseFloat(row.quantity)),
                 target |-> OrZero(parseFloat(row.target)),
                 wasteKg |-> OrZero(parseFloat(row.wasteKg)),
                 orderId |-> IF ToBoolean(row.orderId) THEN parseInt(row.orderId)
                             ELSE Null])

productionRow(row, index) ==
  IF ~ToBoolean(row.date) \/ ~ToBoolean(row.productType) \/ ~ToBoolean(row.quantity)
  THEN Rejected(RowLabel(index) \o ": Missing required fields (date, productType, quantity)")
  ELSE IF ~DateParse(ToStr(row.date)).ok THEN Thrown
  ELSE LET push(record) ==
             Accepted(record,
                      IF FGt(record.quantity, record.target) /\ FGt(record.target, Zero)
                      THEN <<RowLabel(index) \o ": Quantity exceeds target">>
                      ELSE <<>>)
       IN  push([date |-> toISOString(DateParse(ToStr(row.date))),
                 productType |-> JoinChars(row.productType.s),
                 quantity |-> OrZero(parseFloat(row.quantity)),
                 target |-> OrZero(parseFloat(row.target)),
                 wasteKg |-> OrZero(parseFloat(row.wasteKg)),
                 orderId |-> IF ToBoolean(row.orderId) THEN parseInt(row.orderId)
                             ELSE Null])

inventoryRow(row, index, now) ==
  IF ~ToBoolean(row.itemName) \/ ~ToBoolean(row.stockKg)
  THEN Rejected(RowLabel(index) \o ": Missing required fields (itemName, stockKg)")
  ELSE IF ToBoolean(row.lastUpdated) /\ ~DateParse(ToStr(row.lastUpdated)).ok THEN Thrown
  ELSE LET push(record) ==
             Accepted(record,
                      IF FLt(record.stockKg, record.minStockKg)
                      THEN <<RowLabel(index) \o ": " \o JoinChars(ToStr(row.itemName))
                             \o " is below minimum stock">>
                      ELSE <<>>)
       IN  push([itemName |-> JoinChars(row.itemName.s),
                 stockKg |-> OrZero(parseFloat(row.stockKg)),
                 minStockKg |-> OrZero(parseFloat(row.minStockKg)),
                 unit |-> IF ToBoolean(row.unit) THEN JoinChars(row.unit.s) ELSE "kg",
                 lastUpdated |-> IF ToBoolean(row.lastUpdated)
                                 THEN toISOString(DateParse(ToStr(row.lastUpdated)))
                                 ELSE toISOString(now)])

salesRow(row, index) ==
  IF ~ToBoolean(row.date) \/ ~ToBoolean(row.customer) \/ ~ToBoolean(row.productType)
  THEN Rejected(RowLabel(index) \o ": Missing required fields (date, customer, productType)")
  ELSE IF ~DateParse(ToStr(row.date)).ok THEN Thrown
  ELSE Accepted([date |-> toISOString(DateParse(ToStr(row.date))),
                 customer |-> JoinChars(row.customer.s),
                 productType |-> JoinChars(row.productType.s),
                 amount |-> OrZero(parseFloat(row.amount)),
                 revenue |-> OrZero(parseFloat(row.revenue)),
                 delivered |-> row.delivered = Str(<<"t", "r", "u", "e">>)],
                <<>>)

workersRow(row, index) ==
  IF ~ToBoolean(row.date) \/ ~ToBoolean(row.name) \/ ~ToBoolean(row.shift)
  THEN Rejected(RowLabel(index) \o ": Missing required fields (date, name, shift)")
  ELSE IF ~DateParse(ToStr(row.date)).ok THEN Thrown
  ELSE Accepted([date |-> toISOString(DateParse(ToStr(row.date))),
                 name |-> JoinChars(row.name.s),
                 shift |-> JoinChars(row.shift.s),
                 tasksDone |-> OrZero(parseInt(row.tasksDone))],
                <<>>)

rowCallback(type, row, index, now) ==
  CASE type = "production" -> productionRow(row, index)
    [] type = "inventory" -> inventoryRow(row, index, now)
    [] type = "sales" -> salesRow(row, index)
    [] type = "workers" -> workersRow(row, index)

\* data.forEach over the first n rows: an exception thrown by a callback
\* leaves forEach, and the function, without a result
RECURSIVE forEachRow(_, _, _, _)
forEachRow(data, type, now, n) ==
  IF n = 0 THEN NoResult
  ELSE LET then(before, this) ==
             IF before.threw \/ this.threw THEN Thrown
             ELSE [threw |-> FALSE,
                   data |-> before.data \o this.data,
                   errors |-> before.errors \o this.errors,
                   warnings |-> before.warnings \o this.warnings]
       IN  then(forEachRow(data, type, now, n - 1),
                rowCallback(type, data[n], n - 1, now))

parseDataByType(data, type, now) == forEachRow(data, type, now, Len(data))

(***************************************************************************)
(* The sample files of generateSampleCSV and the rows Papa.parse makes of  *)
(* a text with  header: true, skipEmptyLines: true  (no quoted fields).    *)
(***************************************************************************)
productionTemplate ==
  <<"d", "a", "t", "e", ",", "p", "r", "o", "d", "u", "c", "t", "T", "y",
    "p", "e", ",", "q", "u", "a", "n", "t", "i", "t", "y", ",", "t", "a",
    "r", "g", "e", "t", ",", "w", "a", "s", "t", "e", "K", "g", ",", "o",
    "r", "d", "e", "r", "I", "d", "\n", "2", "0", "2", "5", "-", "1", "0",
    "-", "0", "1", ",", "S", "t", "a", "n", "d", "a", "r", "d", " ", "S",
    "h", "u", "t", "t", "e", "r", ",", "1", "8", "0", ",", "2", "0", "0",
    ",", "7", ".", "5", ",", "\n", "2", "0", "2", "5", "-", "1", "0", "-",
    "0", "2", ",", "P", "r", "e", "m", "i", "u", "m", " ", "S", "h", "u",
    "t", "t", "e", "r", ",", "9", "5", ",", "1", "0", "0", ",", "3", ".",
    "2", ",">>

inventoryTemplate ==
  <<"i", "t", "e", "m", "N", "a", "m", "e", ",", "s", "t", "o", "c", "k",
    "K", "g", ",", "m", "i", "n", "S", "t", "o", "c", "k", "K", "g", ",",
    "u", "n", "i", "t", ",", "l", "a", "s", "t", "U", "p", "d", "a", "t",
    "e", "d", "\n", "A", "l", "u", "m", "i", "n", "u", "m", " ", "S", "h",
    "e", "e", "t", "s", ",", "1", "2", "0", "0", ",", "5", "0", "0", ",",
    "k", "g", ",", "2", "0", "2", "5", "-", "1", "0", "-", "0", "1", "T",
    "0", "8", ":", "0", "0", ":", "0", "0", "Z", "\n", "P", "a", "i", "n",
    "t", ",", "1", "5", "0", ",", "1", "0", "0", ",", "L", ",", "2", "0",
    "2", "5", "-", "1", "0", "-", "0", "1", "T", "0", "8", ":", "0", "0",
    ":", "0", "0", "Z">>

salesTemplate ==
  <<"d", "a", "t", "e", ",", "c", "u", "s", "t", "o", "m", "e", "r", ",",
    "p", "r", "o", "d", "u", "c", "t", "T", "y", "p", "e", ",", "a", "m",
    "o", "u", "n", "t", ",", "r", "e", "v", "e", "n", "u", "e", ",", "d",
    "e", "l", "i", "v", "e", "r", "e", "d", "\n", "2", "0", "2", "5", "-",
    "1", "0", "-", "0", "1", ",", "A", "B", "C", " ", "C", "o", "r", "p",
    ",", "S", "t", "a", "n", "d", "a", "r", "d", " ", "S", "h", "u", "t",
    "t", "e", "r", ",", "5", "0", ",", "6", "0", "0", "0", ",", "t", "r",
    "u", "e", "\n", "2", "0", "2", "5", "-", "1", "0", "-", "0", "2", ",",
    "X", "Y", "Z", " ", "L", "t", "d", ",", "P", "r", "e", "m", "i", "u",
    "m", " ", "S", "h", "u", "t", "t", "e", "r", ",", "3", "0", ",", "4",
    "5", "0", "0", ",", "f", "a", "l", "s", "e">>

workersTemplate ==
  <<"d", "a", "t", "e", ",", "n", "a", "m", "e", ",", "s", "h", "i", "f",
    "t", ",", "t", "a", "s", "k", "s", "D", "o", "n", "e", "\n", "2", "0",
    "2", "5", "-", "1", "0", "-", "0", "1", ",", "J", "o", "h", "n", " ",
    "D", "o", "e", ",", "m", "o", "r", "n", "i", "n", "g", ",", "1", "5",
    "\n", "2", "0", "2", "5", "-", "1", "0", "-", "0", "1", ",", "J", "a",
    "n", "e", " ", "S", "m", "i", "t", "h", ",", "a", "f", "t", "e", "r",
    "n", "o", "o", "n", ",", "1", "8">>

generateSampleCSV(type) ==
  CASE type = "production" -> productionTemplate
    [] type = "inventory" -> inventoryTemplate
    [] type = "sales" -> salesTemplate
    [] type = "workers" -> workersTemplate

\* the columns the callback of each kind reads from a row
Columns(type) ==
  CASE type = "production" ->
         {"date", "productType", "quantity", "target", "wasteKg", "orderId"}
    [] type = "inventory" ->
         {"itemName", "stockKg", "minStockKg", "unit", "lastUpdated"}
    [] type = "sales" ->
         {"date", "customer", "productType", "amount", "revenue", "delivered"}
    [] type = "workers" -> {"date", "name", "shift", "tasksDone"}

\* the pieces of str between the occurrences of the separator
Split(str, sep) ==
  LET at == {i \in 1..Len(str) : str[i] = sep}
      count == Cardinality(at) + 1
      nth(j) == CHOOSE p \in at : Cardinality({q \in at : q < p}) = j - 1
      first(j) == IF j = 1 THEN 1 ELSE nth(j - 1) + 1
      last(j) == IF j = count THEN Len(str) ELSE nth(j) - 1
  IN  [j \in 1..count |-> SubSeq(str, first(j), last(j))]

\* results.data: the first line names the columns, every later non-empty line
\* is a row; a line shorter than the header leaves its last columns undefined
PapaRows(text, type) ==
  LET lines == SelectSeq(Split(text, "\n"), LAMBDA line : line # <<>>)
      header == IF lines = <<>> THEN <<>> ELSE Split(lines[1], ",")
      names == [p \in 1..Len(header) |-> JoinChars(header[p])]
      cell(fields, c) ==
        IF \E p \in 1..Len(names) : names[p] = c /\ p <= Len(fields)
        THEN Str(fields[CHOOSE p \in 1..Len(names) : names[p] = c /\ p <= Len(fields)])
        ELSE Undefined
      row(line) == LET fields == Split(line, ",")
                   IN  [c \in Columns(type) |-> cell(fields, c)]
  IN  [i \in 1..(Len(lines) - 1) |-> row(lines[i + 1])]

(***************************************************************************)
(* The files a user can pick: the sample of the kind, a file the browser   *)
(* cannot read, a file of another type, and files of up to MaxRows rows    *)
(* taken from the lists below.                                             *)
(***************************************************************************)
MaxRows == 2

\* the characters of the texts the rows below are written with
Chars(t) ==
  CASE t = "2025-10-01" -> <<"2", "0", "2", "5", "-", "1", "0", "-", "0", "1">>
    [] t = "2025-10-02" -> <<"2", "0", "2", "5", "-", "1", "0", "-", "0", "2">>
    [] t = "2025-10-01T08:00:00Z" -> <<"2", "0", "2", "5", "-", "1", "0", "-", "0", "1", "T", "0", "8", ":", "0", "0", ":", "0", "0", "Z">>
    [] t = "soon" -> <<"s", "o", "o", "n">>
    [] t = "Shutter" -> <<"S", "h", "u", "t", "t", "e", "r">>
    [] t = "Paint" -> <<"P", "a", "i", "n", "t">>
    [] t = "Steel" -> <<"S", "t", "e", "e", "l">>
    [] t = "L" -> <<"L">>
    [] t = "Acme" -> <<"A", "c", "m", "e">>
    [] t = "John" -> <<"J", "o", "h", "n">>
    [] t = "morning" -> <<"m", "o", "r", "n", "i", "n", "g">>
    [] t = "0" -> <<"0">>
    [] t = "5" -> <<"5">>
    [] t = "10" -> <<"1", "0">>
    [] t = "12abc" -> <<"1", "2", "a", "b", "c">>
    [] t = "15" -> <<"1", "5">>
    [] t = "17" -> <<"1", "7">>
    [] t = "40" -> <<"4", "0">>
    [] t = "50" -> <<"5", "0">>
    [] t = "90" -> <<"9", "0">>
    [] t = "95" -> <<"9", "5">>
    [] t = "100" -> <<"1", "0", "0">>
    [] t = "150" -> <<"1", "5", "0">>
    [] t = "180" -> <<"1", "8", "0">>
    [] t = "200" -> <<"2", "0", "0">>
    [] t = "6000" -> <<"6", "0", "0", "0">>
    [] t = "7.5" -> <<"7", ".", "5">>
    [] t = "3.2" -> <<"3", ".", "2">>
    [] t = "12.7" -> <<"1", "2", ".", "7">>
    [] t = "-3" -> <<"-", "3">>
    [] t = "abc" -> <<"a", "b", "c">>
    [] t = "Infinity" -> <<"I", "n", "f", "i", "n", "i", "t", "y">>
    [] t = "true" -> <<"t", "r", "u", "e">>
    [] t = "false" -> <<"f", "a", "l", "s", "e">>
    [] t = "TRUE" -> <<"T", "R", "U", "E">>

Empty == Str(<<>>)
Cell(t) == Str(Chars(t))

ProductionCells(date, productType, quantity, target, wasteKg, orderId) ==
  [date |-> date, productType |-> productType, quantity |-> quantity,
   target |-> target, wasteKg |-> wasteKg, orderId |-> orderId]

InventoryCells(itemName, stockKg, minStockKg, unit, lastUpdated) ==
  [itemName |-> itemName, stockKg |-> stockKg, minStockKg |-> minStockKg,
   unit |-> unit, lastUpdated |-> lastUpdated]

SalesCells(date, customer, productType, amount, revenue, delivered) ==
  [date |-> date, customer |-> customer, productType |-> productType,
   amount |-> amount, revenue |-> revenue, delivered |-> delivered]

WorkerCells(date, name, shift, tasksDone) ==
  [date |-> date, name |-> name, shift |-> shift, tasksDone |-> tasksDone]

productionRows ==
  << \* under target; over target; empty date; no quantity; not a date;
     \* optional cells that are not numbers; zero quantity
     ProductionCells(Cell("2025-10-01"), Cell("Shutter"), Cell("180"), Cell("200"), Cell("7.5"), Empty),
     ProductionCells(Cell("2025-10-02"), Cell("Shutter"), Cell("95"), Cell("90"), Cell("3.2"), Cell("17")),
     ProductionCells(Empty, Cell("Shutter"), Cell("10"), Cell("5"), Undefined, Undefined),
     ProductionCells(Cell("2025-10-01"), Cell("Shutter"), Undefined, Cell("5"), Empty, Empty),
     ProductionCells(Cell("soon"), Cell("Shutter"), Cell("10"), Cell("5"), Empty, Empty),
     ProductionCells(Cell("2025-10-01"), Cell("Shutter"), Cell("12abc"), Cell("abc"), Cell("Infinity"), Cell("abc")),
     ProductionCells(Cell("2025-10-02"), Cell("Shutter"), Cell("0"), Cell("5"), Cell("-3"), Undefined),
     \* a quantity that is no number
     ProductionCells(Cell("2025-10-02"), Cell("Shutter"), Cell("abc"), Cell("5"), Empty, Empty) >>

inventoryRows ==
  << \* stocked; low; empty name; no stock; defaults; not a date; endless minimum
     InventoryCells(Cell("Paint"), Cell("150"), Cell("100"), Cell("L"), Cell("2025-10-01T08:00:00Z")),
     InventoryCells(Cell("Paint"), Cell("40"), Cell("100"), Cell("L"), Cell("2025-10-01T08:00:00Z")),
     InventoryCells(Empty, Cell("40"), Cell("100"), Cell("L"), Cell("2025-10-01T08:00:00Z")),
     InventoryCells(Cell("Steel"), Undefined, Cell("100"), Empty, Empty),
     InventoryCells(Cell("Steel"), Cell("5"), Cell("abc"), Undefined, Undefined),
     InventoryCells(Cell("Paint"), Cell("40"), Cell("100"), Cell("L"), Cell("soon")),
     InventoryCells(Cell("Steel"), Cell("5"), Cell("Infinity"), Empty, Cell("2025-10-01")) >>

salesRows ==
  << \* delivered; cells that are not numbers; empty customer; not a date;
     \* endless revenue
     SalesCells(Cell("2025-10-01"), Cell("Acme"), Cell("Shutter"), Cell("50"), Cell("6000"), Cell("true")),
     SalesCells(Cell("2025-10-02"), Cell("Acme"), Cell("Shutter"), Cell("abc"), Empty, Cell("false")),
     SalesCells(Cell("2025-10-01"), Empty, Undefined, Cell("50"), Cell("6000"), Cell("true")),
     SalesCells(Cell("soon"), Cell("Acme"), Cell("Shutter"), Cell("50"), Cell("6000"), Cell("true")),
     SalesCells(Cell("2025-10-02"), Cell("Acme"), Cell("Shutter"), Undefined, Cell("Infinity"), Cell("TRUE")) >>

workersRows ==
  << \* counted; not a number; empty shift; not a date; a fraction
     WorkerCells(Cell("2025-10-01"), Cell("John"), Cell("morning"), Cell("15")),
     WorkerCells(Cell("2025-10-02"), Cell("John"), Cell("morning"), Cell("abc")),
     WorkerCells(Cell("2025-10-01"), Cell("John"), Empty, Cell("15")),
     WorkerCells(Cell("soon"), Cell("John"), Cell("morning"), Cell("15")),
     WorkerCells(Cell("2025-10-02"), Cell("John"), Cell("morning"), Cell("12.7")) >>

RowList(type) ==
  CASE type = "production" -> productionRows
    [] type = "inventory" -> inventoryRows
    [] type = "sales" -> salesRows
    [] type = "workers" -> workersRows

CsvFile(origin, rows) ==
  [csv |-> TRUE, readable |-> TRUE, error |-> "", origin |-> origin, rows |-> rows]
SampleFile(type) == CsvFile("sample", PapaRows(generateSampleCSV(type), type))
UnreadableFile ==
  [csv |-> TRUE, readable |-> FALSE, error |-> "The file could not be read",
   origin |-> "user", rows |-> <<>>]
OtherFile ==
  [csv |-> FALSE, readable |-> TRUE, error |-> "", origin |-> "user", rows |-> <<>>]

\* the instants at which a parse may run
Nows ==
  {[ok |-> TRUE, y |-> 2025, mo |-> 10, d |-> 3, h |-> 9, mi |-> 30, sec |-> 0, ms |-> 0],
   [ok |-> TRUE, y |-> 2025, mo |-> 10, d |-> 4, h |-> 0, mi |-> 0, sec |-> 0, ms |-> 250]}

(***************************************************************************)
(* components/upload/CSVUpload.tsx: the CSVUpload component of one page.   *)
(* upload is the state of the promise parseCSV returned: "parsing" until   *)
(* Papa calls back, "resolved" once resolve ran, "threw" when the complete *)
(* callback ended with an exception and so never called resolve.           *)
(***************************************************************************)
VARIABLES dataType, file, upload, isUploading, isOpen, parsedData, toast

importVars == <<dataType, file, upload, isUploading, isOpen, parsedData, toast>>

NoData == [none |-> TRUE]

Resolved(result) ==
  [data |-> result.data, errors |-> result.errors, warnings |-> result.warnings]

Files(type) ==
  {SampleFile(type), UnreadableFile, OtherFile}
  \cup {CsvFile("user", [i \in DOMAIN pick |-> RowList(type)[pick[i]]]) :
          pick \in UNION {[1..n -> 1..Len(RowList(type))] : n \in 0..MaxRows}}

ImportInit ==
  /\ dataType \in DataTypes
  /\ file \in Files(dataType)
  /\ upload = "idle"
  /\ isUploading = FALSE
  /\ isOpen = FALSE
  /\ parsedData = NoData
  /\ toast = ""

\* lines 19-30, up to the await
handleFileSelect ==
  /\ ~isUploading
  /\ IF ~file.csv
     THEN /\ toast' = "Please select a CSV file"
          /\ UNCHANGED <<upload, isUploading>>
     ELSE /\ isUploading' = TRUE
          /\ upload' = "parsing"
          /\ UNCHANGED toast
  /\ UNCHANGED <<dataType, file, isOpen, parsedData>>

\* Papa's complete callback (csvParser.ts 20-23) and, when it resolves the
\* promise, the rest of handleFileSelect (lines 31-38)
PapaComplete ==
  /\ upload = "parsing"
  /\ file.readable
  /\ \E now \in Nows :
       LET complete(parsed) ==
             IF parsed.threw
             THEN /\ upload' = "threw"
                  /\ UNCHANGED <<isUploading, isOpen, parsedData>>
             ELSE /\ upload' = "resolved"
                  /\ parsedData' = Resolved(parsed)
                  /\ isOpen' = TRUE
                  /\ isUploading' = FALSE
       IN  complete(parseDataByType(file.rows, dataType, now))
  /\ UNCHANGED <<dataType, file, toast>>

\* Papa's error callback (csvParser.ts 24-30), then lines 31-38
PapaError ==
  /\ upload = "parsing"
  /\ ~file.readable
  /\ upload' = "resolved"
  /\ parsedData' = [data |-> <<>>,
                    errors |-> <<"Failed to parse CSV: " \o file.error>>,
                    warnings |-> <<>>]
  /\ isOpen' = TRUE
  /\ isUploading' = FALSE
  /\ UNCHANGED <<dataType, file, toast>>

\* the Cancel button and the dialog's onOpenChange
closeDialog ==
  /\ isOpen
  /\ isOpen' = FALSE
  /\ UNCHANGED <<dataType, file, upload, isUploading, parsedData, toast>>

(***************************************************************************)
(* lib/aiInsights.ts.  Records hold their numbers as Numbers, their names  *)
(* as strings, their dates as the characters of an ISO text.               *)
(***************************************************************************)

\* a function over 1..n as a tuple (each element is evaluated once)
Tuple(f) == f \o <<>>

\* an ascending sort that puts equal keys in the reverse of their order
SortByKeyTiesReversed(s, key) ==
  LET n == Len(s)
      less(a, b) == a[1] < b[1] \/ (a[1] = b[1] /\ a[2] < b[2])
      rank == Tuple([i \in 1..n |->
                       1 + Cardinality({j \in 1..n :
                             \/ less(key[j], key[i])
                             \/ (j > i /\ ~less(key[i], key[j]))})])
  IN  Tuple([p \in 1..n |-> s[CHOOSE i \in 1..n : rank[i] = p]])

\* Array.prototype.sort with a comparator on one key: stable, ascending.
\* key[i] is the key of s[i]; less(a, b) says the comparator is negative.
SortByKey(s, key) ==
  LET n == Len(s)
      less(a, b) == a[1] < b[1] \/ (a[1] = b[1] /\ a[2] < b[2])
      rank == Tuple([i \in 1..n |->
                       1 + Cardinality({j \in 1..n :
                             \/ less(key[j], key[i])
                             \/ (j < i /\ ~less(key[i], key[j]))})])
  IN  Tuple([p \in 1..n |-> s[CHOOSE i \in 1..n : rank[i] = p]])

\* the argument as a sort in place would leave it
productionSortedInPlace(production) ==
  LET key == Tuple([i \in 1..Len(production) |->
                      getTime(DateParse(production[i].date))])
  IN  SortByKey(production, key)

\* line 55: sort reorders its receiver, here the copy [...production]; the
\* argument keeps its records and their order
productionAfterSort(production) == production

\* lines 55-57 (every stored date is a valid ISO text)
sortedProduction(production) ==
  LET key == Tuple([i \in 1..Len(production) |->
                      getTime(DateParse(production[i].date))])
  IN  SortByKey(production, key)

\* records.reduce((sum, p) => sum + p[f], 0)
Sum(records, f) ==
  LET RECURSIVE To(_)
      To(n) == IF n = 0 THEN Zero ELSE FAdd(To(n - 1), records[n][f])
  IN  To(Len(records))

\* Array.prototype.slice(from, to): a negative index counts from the end
Slice(s, from, to) ==
  LET n == Len(s)
      Index(k) == IF k < 0 THEN (IF n + k < 0 THEN 0 ELSE n + k)
                  ELSE (IF k > n THEN n ELSE k)
  IN  SubSeq(s, Index(from) + 1, Index(to))

\* slice(-7) and slice(-14, -7)
Last7(s) == Slice(s, -7, Len(s))
Prior7(s) == Slice(s, -14, -7)

Average(records, f) == FDiv(Sum(records, f), FromInt(Len(records)))

\* line 67
Change(recentAvg, previousAvg) ==
  FMul(FDiv(FSub(recentAvg, previousAvg), previousAvg), FromInt(100))

decreaseAnomaly(change, recentAvg, previousAvg) ==
  [issue |-> "Production decreased " \o toFixed1(MathAbs(change)) \o "% week-over-week",
   evidence |-> "Average daily output: " \o NumberToString(MathRound(recentAvg))
                \o " units (prev: " \o NumberToString(MathRound(previousAvg)) \o " units)",
   likelyCauses |-> <<"Material shortage or supply chain issues",
                      "Equipment maintenance or downtime",
                      "Worker absenteeism or shift changes">>,
   immediateAction |-> "Review material stock levels and equipment status",
   severity |-> IF FLt(change, FromInt(-20)) THEN "high" ELSE "medium"]

wasteAnomaly(recentWaste, previousWaste) ==
  [issue |-> "Waste levels increased significantly",
   evidence |-> "Current waste rate: " \o toFixed1(FMul(recentWaste, FromInt(100)))
                \o "kg per 100 units (prev: "
                \o toFixed1(FMul(previousWaste, FromInt(100))) \o "kg)",
   likelyCauses |-> <<"Quality control issues",
                      "Raw material quality degradation",
                      "Operator training needed">>,
   immediateAction |-> "Conduct quality inspection and operator review",
   severity |-> "medium"]

\* a change that is not known to be -10 or more
NotAtLeastMinus10(change) ==
  ~(FGt(change, FromInt(-10)) \/ change = FromInt(-10))

\* line 69
Decreased(change) == FLt(change, FromInt(-10))

\* any rise of the waste rate
WasteGrewAtAll(recentWaste, previousWaste) == FGt(recentWaste, previousWaste)

\* line 88
WasteGrew(recentWaste, previousWaste) ==
  FGt(recentWaste, FMul(previousWaste, Dec(12, 1)))

\* lines 64-100, on the last seven records and the seven before them
trendAnomalies(recentProduction, previousProduction) ==
  LET decrease(change, recentAvg, previousAvg) ==
        IF Decreased(change)
        THEN <<decreaseAnomaly(change, recentAvg, previousAvg)>> ELSE <<>>
      waste(recentWaste, previousWaste) ==
        IF WasteGrew(recentWaste, previousWaste)
        THEN <<wasteAnomaly(recentWaste, previousWaste)>> ELSE <<>>
      compare(recentAvg, previousAvg) ==
        decrease(Change(recentAvg, previousAvg), recentAvg, previousAvg)
  IN  compare(Average(recentProduction, "quantity"),
              Average(previousProduction, "quantity"))
      \o waste(FDiv(Sum(recentProduction, "wasteKg"),
                    Sum(recentProduction, "quantity")),
               FDiv(Sum(previousProduction, "wasteKg"),
                    Sum(previousProduction, "quantity")))

\* the trend rules applied from thirteen records on
productionAnomaliesFrom13(sorted) ==
  IF Len(sorted) >= 13 THEN trendAnomalies(Last7(sorted), Prior7(sorted)) ELSE <<>>

\* lines 59-101
productionAnomalies(sorted) ==
  IF Len(sorted) >= 14 THEN trendAnomalies(Last7(sorted), Prior7(sorted)) ELSE <<>>

\* low stock reported at severity medium
lowStockAnomalyMedium(item) ==
  [issue |-> item.itemName \o " stock critically low",
   evidence |-> "Current: " \o NumberToString(item.stockKg) \o item.unit
                \o ", Minimum: " \o NumberToString(item.minStockKg) \o item.unit,
   likelyCauses |-> <<"Increased consumption rate",
                      "Delayed supplier delivery",
                      "Inventory forecasting error">>,
   immediateAction |-> "Reorder " \o item.itemName
                       \o " immediately - production may be affected",
   severity |-> "medium"]

\* lines 106-116
lowStockAnomaly(item) ==
  [issue |-> item.itemName \o " stock critically low",
   evidence |-> "Current: " \o NumberToString(item.stockKg) \o item.unit
                \o ", Minimum: " \o NumberToString(item.minStockKg) \o item.unit,
   likelyCauses |-> <<"Increased consumption rate",
                      "Delayed supplier delivery",
                      "Inventory forecasting error">>,
   immediateAction |-> "Reorder " \o item.itemName
                       \o " immediately - production may be affected",
   severity |-> "high"]

\* an item at its minimum counted as low
AtOrBelowMinimum(item) == ~FGt(item.stockKg, item.minStockKg)

BelowMinimum(item) == FLt(item.stockKg, item.minStockKg)

\* lines 104-118
inventoryAnomalies(inventory) ==
  LET low == SelectSeq(inventory, BelowMinimum)
  IN  [i \in 1..Len(low) |-> lowStockAnomaly(low[i])]

\* the low-stock anomalies put before those of the production trend
detectAnomaliesStockFirst(production, inventory, workers) ==
  inventoryAnomalies(inventory) \o productionAnomalies(sortedProduction(production))

\* lines 47-121
detectAnomalies(production, inventory, workers) ==
  productionAnomalies(sortedProduction(production)) \o inventoryAnomalies(inventory)

\* the estimate without the floor of 0.1 a day
DaysToDepletionNoFloor(item) == FDiv(item.stockKg, FMul(item.minStockKg, Dec(5, 2)))

\* lines 134-135
DaysToDepletion(item) ==
  LET avgDailyConsumption == FMul(item.minStockKg, Dec(5, 2))
  IN  FDiv(item.stockKg, MathMax(avgDailyConsumption, Dec(1, 1)))

\* the forecast made without looking at the stock left
DepletesWithinThirty(item) == FLt(DaysToDepletion(item), FromInt(30))

\* lines 132 and 137
Depleting(item) ==
  FGt(item.stockKg, Zero) /\ FLt(DaysToDepletion(item), FromInt(30))

\* lines 131-146
inventoryForecasts(inventory) ==
  LET soon == SelectSeq(inventory, Depleting)
  IN  [i \in 1..Len(soon) |->
         [item |-> soon[i].itemName,
          daysToDepletion |-> MathRound(DaysToDepletion(soon[i])),
          confidence |-> Dec(75, 2),
          type |-> "inventory"]]

\* the same loop with x counted from 1
RECURSIVE RegressionFromOne(_, _, _)
RegressionFromOne(quantities, yMean, n) ==
  IF n = 0 THEN [numerator |-> Zero, denominator |-> Zero]
  ELSE LET before == RegressionFromOne(quantities, yMean, n - 1)
           dx == FSub(FromInt(n), FromInt(3))
       IN  [numerator |-> FAdd(before.numerator,
                               FMul(dx, FSub(quantities[n], yMean))),
            denominator |-> FAdd(before.denominator, FMul(dx, dx))]

\* the loop of lines 160-163 over the first n quantities: x runs from 0
RECURSIVE Regression(_, _, _)
Regression(quantities, yMean, n) ==
  IF n = 0 THEN [numerator |-> Zero, denominator |-> Zero]
  ELSE LET before == Regression(quantities, yMean, n - 1)
           dx == FSub(FromInt(n - 1), FromInt(3))
       IN  [numerator |-> FAdd(before.numerator,
                               FMul(dx, FSub(quantities[n], yMean))),
            denominator |-> FAdd(before.denominator, FMul(dx, dx))]

\* lines 149-176, on the records in the order they are stored
productionForecasts(production) ==
  IF Len(production) >= 7
  THEN LET recent == Last7(production)
           quantities == [i \in 1..7 |-> recent[i].quantity]
           avgQuantity == FDiv(Sum(recent, "quantity"), FromInt(Len(quantities)))
           slope(sums) == IF sums.denominator # Zero
                          THEN FDiv(sums.numerator, sums.denominator) ELSE Zero
           trend(s) == IF FLt(s, FromInt(-5)) THEN "declining"
                       ELSE IF FGt(s, FromInt(5)) THEN "increasing"
                       ELSE "stable"
       IN  IF trend(slope(Regression(quantities, avgQuantity, 7))) # "stable"
           THEN <<[item |-> "Production Trend", daysToDepletion |-> Zero,
                   confidence |-> Dec(65, 2), type |-> "production"]>>
           ELSE <<>>
  ELSE <<>>

generateForecasts(production, inventory) ==
  inventoryForecasts(inventory) \o productionForecasts(production)

\* an order recommended only within a week of depletion
NeedsOrderWithinWeek(forecast) ==
  forecast.type = "inventory" /\ FLt(forecast.daysToDepletion, FromInt(7))

NeedsOrder(forecast) ==
  forecast.type = "inventory" /\ FLt(forecast.daysToDepletion, FromInt(14))

\* the fallback given whenever no anomaly was found
NoAnomalies(anomalies, forecasts) == Len(anomalies) = 0

\* line 213
HealthyMetrics(anomalies, forecasts) == Len(anomalies) = 0 /\ Len(forecasts) = 0

\* lines 186-223
generateRecommendations(anomalies, forecasts) ==
  LET high == SelectSeq(anomalies, LAMBDA anomaly : anomaly.severity = "high")
      order == SelectSeq(forecasts, NeedsOrder)
      fromAnomalies ==
        [i \in 1..Len(high) |->
           [action |-> high[i].immediateAction,
            estimatedImpact |-> "Critical - prevent production stoppage",
            difficulty |-> "low", priority |-> 1]]
      fromForecasts ==
        [i \in 1..Len(order) |->
           [action |-> "Order " \o order[i].item \o " within next 3 days",
            estimatedImpact |->
              "Maintain " \o NumberToString(MathRound(order[i].daysToDepletion))
              \o " days buffer stock",
            difficulty |-> "low", priority |-> 2]]
      general ==
        IF HealthyMetrics(anomalies, forecasts)
        THEN <<[action |-> "Continue current operations - all metrics healthy",
                estimatedImpact |-> "Maintain efficiency and quality standards",
                difficulty |-> "low", priority |-> 3]>>
        ELSE <<>>
      recommendations == fromAnomalies \o fromForecasts \o general
  IN  SortByKey(recommendations,
                Tuple([i \in 1..Len(recommendations) |->
                         <<0, recommendations[i].priority>>]))

\* the plural taken from one on
PluralFromOne(n) == IF n >= 1 THEN "s" ELSE ""

\* lines 241, 245: anomalies.length > 1 ? 's' : ''
Plural(n) == IF n > 1 THEN "s" ELSE ""

\* a summary that counts the sales and the workers
generateInsightsWithStaff(production, inventory, sales, workers) ==
  LET insights(anomalies, forecasts) ==
        [anomalies |-> anomalies, forecasts |-> forecasts,
         recommendations |-> generateRecommendations(anomalies, forecasts),
         summary |-> "Factory operations overview: " \o ToString(Len(sales))
                     \o " sales by " \o ToString(Len(workers)) \o " workers. "]
  IN  insights(productionAnomalies(sortedProduction(production))
                 \o inventoryAnomalies(inventory),
               generateForecasts(productionAfterSort(production), inventory))

\* lines 232-253
generateInsights(production, inventory, sales, workers) ==
  LET summary(anomalies, forecasts) ==
        "Factory operations overview: "
        \o (IF Len(anomalies) = 0 THEN "All systems operating normally. "
            ELSE ToString(Len(anomalies)) \o " issue" \o Plural(Len(anomalies))
                 \o " detected requiring attention. ")
        \o (IF Len(forecasts) > 0
            THEN ToString(Len(forecasts)) \o " forecast alert"
                 \o Plural(Len(forecasts)) \o " for inventory management. "
            ELSE "")
      insights(anomalies, forecasts) ==
        [anomalies |-> anomalies, forecasts |-> forecasts,
         recommendations |-> generateRecommendations(anomalies, forecasts),
         summary |-> summary(anomalies, forecasts)]
  IN  insights(detectAnomalies(production, inventory, workers),
               generateForecasts(productionAfterSort(production), inventory))

(***************************************************************************)
(* pages/Insights.tsx: the Insights page over the stored production and    *)
(* inventory tables.                                                       *)
(***************************************************************************)
MaxItems == 2

\* the stored date of the k-th day of September 2025
DayText(k) ==
  toISOString([ok |-> TRUE, y |-> 2025, mo |-> 9, d |-> k,
               h |-> 0, mi |-> 0, sec |-> 0, ms |-> 0])

ProductionRecord(day, quantity, wasteKg) ==
  [date |-> DayText(day), productType |-> "Shutter", quantity |-> FromInt(quantity),
   target |-> FromInt(10), wasteKg |-> FromInt(wasteKg), orderId |-> Null]

\* fourteen days: quantities q and waste w, one record a day from day 2
Fortnight(q, w) == [i \in 1..14 |-> ProductionRecord(i + 1, q[i], w[i])]

Flat(a, b) == [i \in 1..14 |-> IF i <= 7 THEN a ELSE b]

Reverse(s) == [i \in 1..Len(s) |-> s[Len(s) + 1 - i]]

\* quantities of the prior and the last seven days
Weeks ==
  { Flat(10, 10), Flat(10, 9), Flat(10, 8), Flat(10, 7), Flat(9, 10), Flat(0, 10),
    Flat(10, 0), Flat(0, 0),
    <<12, 13, 13, 13, 13, 13, 13, 9, 12, 12, 12, 12, 12, 12>>,
    <<10, 10, 10, 10, 10, 10, 10, 8, 9, 9, 9, 9, 9, 9>>,
    <<10, 10, 10, 10, 10, 10, 10, 7, 8, 8, 8, 8, 8, 8>>,
    <<40, 40, 40, 40, 40, 40, 40, 40, 32, 26, 20, 14, 8, 2>> }

ProductionTables ==
  {Fortnight(q, Flat(1, 1)) : q \in Weeks}
  \cup {Fortnight(Flat(10, 10), Flat(1, 2)), Fortnight(Flat(10, 7), Flat(1, 2))}
  \cup {Reverse(Fortnight(Flat(10, 7), Flat(1, 1))),
        <<ProductionRecord(1, 100, 1)>> \o Fortnight(Flat(10, 7), Flat(1, 1)),
        Fortnight(Flat(7, 10), Flat(1, 1)) \o <<ProductionRecord(1, 100, 1)>>}
  \cup {SubSeq(Fortnight(Flat(10, 7), Flat(1, 2)), 2, 14),
        SubSeq(Fortnight(Flat(10, 7), Flat(1, 2)), 8, 14),
        SubSeq(Fortnight(Flat(10, 7), Flat(1, 2)), 9, 14),
        <<>>}

InventoryItem(itemName, stockKg, minStockKg, unit) ==
  [itemName |-> itemName, stockKg |-> stockKg, minStockKg |-> minStockKg,
   unit |-> unit, lastUpdated |-> DayText(15)]

Items ==
  << InventoryItem("Paint", FromInt(40), FromInt(100), "L"),
     InventoryItem("Steel", FromInt(5), Zero, "kg"),
     InventoryItem("Aluminum Sheets", FromInt(1200), FromInt(500), "kg"),
     InventoryItem("Glue", Dec(75, 1), Dec(125, 1), "kg"),
     InventoryItem("Screws", Zero, FromInt(10), "kg"),
     InventoryItem("Foil", FromInt(100), FromInt(100), "m") >>

InventoryTables ==
  {[i \in DOMAIN pick |-> Items[pick[i]]] :
     pick \in UNION {[1..n -> 1..Len(Items)] : n \in 0..MaxItems}}

\* the tables a report can find: every production table with little stock,
\* every inventory table with no production records, and those of one item
\* at most with thirteen
StoredTables ==
  (ProductionTables \X {<<>>, <<Items[1]>>})
  \cup ({<<>>} \X InventoryTables)
  \cup ({SubSeq(Fortnight(Flat(10, 7), Flat(1, 2)), 2, 14)}
          \X {table \in InventoryTables : Len(table) <= 1})

SaleRecord ==
  [date |-> DayText(1), customer |-> "Acme", productType |-> "Shutter",
   amount |-> FromInt(50), revenue |-> FromInt(6000), delivered |-> TRUE]

WorkerRecord(name, tasksDone) ==
  [date |-> DayText(1), name |-> name, shift |-> "morning", tasksDone |-> tasksDone]

SalesTables == {<<>>, <<SaleRecord>>}

WorkerTables ==
  {<<>>, <<WorkerRecord("John", Zero), WorkerRecord("Sarah", FromInt(12))>>}

\* the sales and worker tables beside the others: none of either beside
\* most, every pair of them beside a few
OtherTables(tables) ==
  IF tables \in {Fortnight(Flat(10, 7), Flat(1, 2)), <<>>} \X {<<>>, <<Items[1]>>}
  THEN SalesTables \X WorkerTables
  ELSE {<< <<>>, <<>> >>}

\* passed holds the arrays handed to generateInsights as the call left them;
\* reading holds while generateReport awaits the tables
VARIABLES production, inventory, sales, workers, loading, reading, insights, passed

pageVars ==
  <<production, inventory, sales, workers, loading, reading, insights, passed>>

NoInsights == [none |-> TRUE]

PageInit ==
  /\ \E tables \in StoredTables :
       /\ production = tables[1] /\ inventory = tables[2]
       /\ \E others \in OtherTables(tables) :
            sales = others[1] /\ workers = others[2]
  /\ loading = FALSE
  /\ reading = FALSE
  /\ insights = NoInsights
  /\ passed = NoInsights

\* lines 15-16, 27-29 and 56: the page mounts, or the Refresh button, enabled
\* while loading is false, is pressed; the handler then awaits the tables
generateReport ==
  /\ ~loading
  /\ loading' = TRUE
  /\ reading' = TRUE
  /\ UNCHANGED <<production, inventory, sales, workers, insights, passed>>

\* lines 22-24: the four tables have been read
reportReady ==
  /\ reading
  /\ insights' = generateInsights(production, inventory, sales, workers)
  /\ passed' = [production |-> productionAfterSort(production), inventory |-> inventory]
  /\ loading' = FALSE
  /\ reading' = FALSE
  /\ UNCHANGED <<production, inventory, sales, workers>>

\* lines 17-20: one of the four awaited reads rejects; the handler has no
\* try, so it ends there, before lines 22-24
readRejected ==
  /\ reading
  /\ reading' = FALSE
  /\ UNCHANGED <<production, inventory, sales, workers, loading, insights, passed>>

(***************************************************************************)
(* The collection store (lib/db) as the upload components and the import   *)
(* history use it: the importBatches table, and the table of the page's    *)
(* kind.  A call is carried out, or refused, when its turn comes: calls    *)
(* take their turn in the order they were made, and the handler that       *)
(* awaits a call goes on in the same step.                                 *)
(***************************************************************************)
MaxImports == 1

\* importBatches.add(batch): the table allocates the next key
AddBatch(store, batch) ==
  [store EXCEPT !.importBatches = Append(@, [id |-> store.lastBatchId + 1] @@ batch),
                !.lastBatchId = @ + 1]

\* table.bulkAdd(records): every record or none
BulkAdd(store, records) == [store EXCEPT !.table = @ \o records]

\* every record that came with an import taken for a record of the batch
OfAnyBatch(record, id) == "importBatchId" \in DOMAIN record

\* where('importBatchId').equals(id)
OfBatch(record, id) == "importBatchId" \in DOMAIN record /\ record.importBatchId = id

\* table.where('importBatchId').equals(id).delete()
DeleteWhereBatch(store, id) ==
  [store EXCEPT !.table = SelectSeq(@, LAMBDA record : ~OfBatch(record, id))]

\* importBatches.delete(id)
DeleteBatch(store, id) ==
  [store EXCEPT !.importBatches = SelectSeq(@, LAMBDA batch : batch.id # id)]

\* importBatches.where('dataType').equals(type).reverse().sortBy('importedAt'):
\* the batches of the kind, newest first
BatchesOf(store, type) ==
  LET newestFirst(batches) ==
        Reverse(SortByKey(batches,
                          Tuple([i \in 1..Len(batches) |->
                                   getTime(DateParse(batches[i].importedAt))])))
  IN  Tuple(newestFirst(SelectSeq(store.importBatches,
                                  LAMBDA batch : batch.dataType = type)))

\* a record of the kind as the store holds it
StoredRecord(type) ==
  CASE type = "production" -> ProductionRecord(1, 100, 1)
    [] type = "inventory" -> Items[1]
    [] OTHER -> [date |-> DayText(1), customer |-> "Acme", productType |-> "Shutter",
                 amount |-> FromInt(50), revenue |-> FromInt(6000), delivered |-> TRUE]

EmptyStore == [importBatches |-> <<>>, table |-> <<>>, lastBatchId |-> 0]

\* a store in use: a record from the seed, one record of an earlier import of
\* the kind, and a batch of another kind
UsedStore(type) ==
  [importBatches |->
     <<[id |-> 1, fileName |-> "first.csv", dataType |-> type, recordCount |-> 1,
        importedAt |-> DayText(20)],
       [id |-> 2, fileName |-> "other.csv",
        dataType |-> IF type = "workers" THEN "sales" ELSE "workers",
        recordCount |-> 0, importedAt |-> DayText(21)]>>,
   table |-> <<StoredRecord(type), StoredRecord(type) @@ [importBatchId |-> 1]>>,
   lastBatchId |-> 2]

Stores(type) == {EmptyStore, UsedStore(type)}

\* the position, in the kind's rows, of the row whose date is no date
NotADate(type) ==
  CASE type = "production" -> 5 [] type = "inventory" -> 6 [] OTHER -> 4

\* the files a page is given: a file that cannot be read, a file of another
\* format, and files made of the kind's first three rows (a clean row, a
\* row with a warning where the kind has one, a row with an error) and of
\* its row that is no date
StoreFiles(type) ==
  {UnreadableFile, OtherFile}
  \cup {CsvFile("user", [i \in DOMAIN pick |-> RowList(type)[pick[i]]]) :
          pick \in {<<>>, <<1>>, <<1, 2>>, <<1, 3>>, <<NotADate(type)>>}}

\* the pages and the upload component each of them mounts
Pages ==
  { [component |-> "FileUpload", dataType |-> "sales"],
    [component |-> "FileUpload", dataType |-> "production"],
    [component |-> "CSVUpload", dataType |-> "inventory"],
    [component |-> "CSVUpload", dataType |-> "sales"] }

\* importing is the await handleImport stands at and batchId the key it
\* was given (0 outside the handler); deleting is the await
\* handleDeleteImport stands at with the import it was called for; pending
\* lists the handlers with a store call under way in the order the calls
\* were made; started counts the imports
VARIABLES component, fileName, db, pending, importing, batchId, started,
          imports, selectedImport, isDeleteDialogOpen, deleting

storeVars == <<component, fileName, db, pending, importing, batchId, started,
               imports, selectedImport, isDeleteDialogOpen, deleting>>

historyVars == <<imports, selectedImport, isDeleteDialogOpen, deleting>>

NoImport == [none |-> TRUE]
NotDeleting == [await |-> "none", id |-> 0]

\* the instant of the n-th import: later than every stored batch
ImportInstant(n) ==
  [ok |-> TRUE, y |-> 2025, mo |-> 10, d |-> 4 + n, h |-> 12, mi |-> 0, sec |-> 0, ms |-> 0]

NameOf(f) == f.origin \o (IF f.csv THEN ".csv" ELSE ".txt")

\* FileUpload lines 216-227, up to the await
FileUpload_handleFileSelect ==
  /\ component = "FileUpload"
  /\ ~isUploading
  /\ IF ~file.csv
     THEN /\ toast' = "Please select a CSV or Excel file (.csv, .xlsx, .xls)"
          /\ UNCHANGED <<upload, isUploading, fileName>>
     ELSE /\ fileName' = NameOf(file)
          /\ isUploading' = TRUE
          /\ upload' = "parsing"
          /\ UNCHANGED toast
  /\ UNCHANGED <<dataType, file, isOpen, parsedData>>
  /\ UNCHANGED <<component, db, pending, importing, batchId, started, historyVars>>

\* parseFile settles: FileUpload lines 228-237.  The validation is that of
\* the import pipeline; a file that cannot be decoded gives an empty result
\* with a single error message.  Where the validation raises, the promise
\* is rejected or, as with parseCSV, never settled
parseFileSettled ==
  /\ component = "FileUpload"
  /\ upload = "parsing"
  /\ \E now \in Nows :
       LET settle(parsed) ==
             IF parsed.threw
             THEN \/ /\ upload' = "rejected"
                     /\ toast' = "Failed to parse file"
                     /\ isUploading' = FALSE
                     /\ UNCHANGED <<isOpen, parsedData>>
                  \/ /\ upload' = "threw"
                     /\ UNCHANGED <<isUploading, isOpen, parsedData, toast>>
             ELSE /\ upload' = "resolved"
                  /\ parsedData' = IF file.readable THEN Resolved(parsed)
                                   ELSE [data |-> <<>>, errors |-> <<file.error>>,
                                         warnings |-> <<>>]
                  /\ isOpen' = TRUE
                  /\ isUploading' = FALSE
                  /\ UNCHANGED toast
       IN  settle(parseDataByType(file.rows, dataType, now))
  /\ UNCHANGED <<dataType, file, storeVars>>

\* the import is refused whatever was parsed with errors or not
NothingParsed(parsed) == parsed = NoData

\* lines 42 and 241, and the disabled condition of the Import button
\* (lines 186 and 422): !parsedData || parsedData.errors.length > 0
ImportBlocked(parsed) == parsed = NoData \/ Len(parsed.errors) > 0

\* FileUpload lines 254-258
recordsWithBatchId(data, id) ==
  Tuple([i \in 1..Len(data) |-> data[i] @@ [importBatchId |-> id]])

\* the Import button: CSVUpload lines 41-46 with the page's handleImport
\* (Inventory.tsx 35-36) up to its await, FileUpload lines 240-252 up to the
\* await
handleImport ==
  /\ isOpen /\ ~isUploading
  /\ ~ImportBlocked(parsedData)
  /\ started < MaxImports
  /\ started' = started + 1
  /\ isUploading' = TRUE
  /\ importing' = IF component = "FileUpload" THEN "adding" ELSE "writing"
  /\ pending' = Append(pending, "import")
  /\ UNCHANGED <<dataType, file, upload, isOpen, parsedData, toast>>
  /\ UNCHANGED <<component, fileName, db, batchId, historyVars>>

\* importBatches.add has resolved: FileUpload lines 247-273, up to the await
\* of bulkAdd
importBatchAdded ==
  /\ importing = "adding" /\ Head(pending) = "import"
  /\ db' = AddBatch(db, [fileName |-> fileName, dataType |-> dataType,
                         recordCount |-> Len(parsedData.data),
                         importedAt |-> toISOString(ImportInstant(started))])
  /\ batchId' = db.lastBatchId + 1
  /\ importing' = "writing"
  /\ pending' = Append(Tail(pending), "import")
  /\ UNCHANGED <<importVars, component, fileName, started, historyVars>>

\* bulkAdd has resolved: FileUpload lines 275-278 and 283-284; CSVUpload
\* lines 46-49 and 53 after Inventory.tsx 36-37
importWritten ==
  /\ importing = "writing" /\ Head(pending) = "import"
  /\ db' = BulkAdd(db, IF component = "FileUpload"
                       THEN recordsWithBatchId(parsedData.data, batchId)
                       ELSE parsedData.data)
  /\ toast' = "Imported " \o ToString(Len(parsedData.data)) \o " records successfully"
  /\ isOpen' = FALSE
  /\ parsedData' = NoData
  /\ isUploading' = FALSE
  /\ importing' = "idle"
  /\ batchId' = 0
  /\ pending' = Tail(pending)
  /\ UNCHANGED <<dataType, file, upload>>
  /\ UNCHANGED <<component, fileName, started, historyVars>>

\* the store refuses the call handleImport awaits: the catch and the
\* finally, FileUpload lines 279-284, CSVUpload lines 50-53
importRejected ==
  /\ importing # "idle" /\ Head(pending) = "import"
  /\ toast' = "Failed to import data"
  /\ isUploading' = FALSE
  /\ importing' = "idle"
  /\ batchId' = 0
  /\ pending' = Tail(pending)
  /\ UNCHANGED <<dataType, file, upload, isOpen, parsedData>>
  /\ UNCHANGED <<component, fileName, db, started, historyVars>>

(***************************************************************************)
(* components/help/UserGuide.tsx: the ImportHistory of a page.             *)
(***************************************************************************)

\* lines 238-245, on mount and after a delete
loadImports ==
  /\ component = "FileUpload"
  /\ imports' = BatchesOf(db, dataType)
  /\ imports' # imports
  /\ UNCHANGED <<importVars, component, fileName, db, pending, importing, batchId,
                 started, selectedImport, isDeleteDialogOpen, deleting>>

\* the bin button of a listed import, lines 311-317
selectImport ==
  /\ ~isDeleteDialogOpen
  /\ \E i \in DOMAIN imports : selectedImport' = imports[i]
  /\ isDeleteDialogOpen' = TRUE
  /\ UNCHANGED <<importVars, component, fileName, db, pending, importing, batchId,
                 started, imports, deleting>>

\* the Cancel button of the delete dialog, lines 342-348
cancelDelete ==
  /\ isDeleteDialogOpen /\ deleting = NotDeleting
  /\ isDeleteDialogOpen' = FALSE
  /\ UNCHANGED <<importVars, component, fileName, db, pending, importing, batchId,
                 started, imports, selectedImport, deleting>>

\* lines 247-266, up to the await of the records' delete
handleDeleteImport ==
  /\ isDeleteDialogOpen /\ deleting = NotDeleting
  /\ selectedImport # NoImport
  /\ deleting' = [await |-> "records", id |-> selectedImport.id]
  /\ pending' = Append(pending, "delete")
  /\ UNCHANGED <<importVars, component, fileName, db, importing, batchId, started,
                 imports, selectedImport, isDeleteDialogOpen>>

\* the records' delete has resolved: line 269, up to the await
recordsDeleted ==
  /\ deleting.await = "records" /\ Head(pending) = "delete"
  /\ db' = DeleteWhereBatch(db, deleting.id)
  /\ deleting' = [deleting EXCEPT !.await = "batch"]
  /\ pending' = Append(Tail(pending), "delete")
  /\ UNCHANGED <<importVars, component, fileName, importing, batchId, started,
                 imports, selectedImport, isDeleteDialogOpen>>

\* the batch's delete has resolved: lines 271-275 and 279-280, with the
\* loadImports of line 274
importDeleted ==
  /\ deleting.await = "batch" /\ Head(pending) = "delete"
  /\ db' = DeleteBatch(db, deleting.id)
  /\ toast' = "Deleted " \o ToString(selectedImport.recordCount)
              \o " records from \"" \o selectedImport.fileName \o "\""
  /\ isDeleteDialogOpen' = FALSE
  /\ selectedImport' = NoImport
  /\ imports' = BatchesOf(db', dataType)
  /\ deleting' = NotDeleting
  /\ pending' = Tail(pending)
  /\ UNCHANGED <<dataType, file, upload, isUploading, isOpen, parsedData>>
  /\ UNCHANGED <<component, fileName, importing, batchId, started>>

\* the store refuses a delete: the catch and the finally, lines 276-280
deleteRejected ==
  /\ deleting # NotDeleting /\ Head(pending) = "delete"
  /\ toast' = "Failed to delete import"
  /\ deleting' = NotDeleting
  /\ pending' = Tail(pending)
  /\ UNCHANGED <<dataType, file, upload, isUploading, isOpen, parsedData>>
  /\ UNCHANGED <<component, fileName, db, importing, batchId, started, imports,
                 selectedImport, isDeleteDialogOpen>>

StoreAtRest ==
  /\ component = "CSVUpload" /\ fileName = "" /\ db = EmptyStore /\ pending = <<>>
  /\ importing = "idle" /\ batchId = 0 /\ started = 0 /\ imports = <<>>
  /\ selectedImport = NoImport /\ isDeleteDialogOpen = FALSE /\ deleting = NotDeleting

\* a page opens over a store: the upload component and the import history
\* are mounted, nothing is selected
PageOpens ==
  /\ \E page \in Pages :
       /\ component = page.component
       /\ dataType = page.dataType
  /\ file \in StoreFiles(dataType)
  /\ upload = "idle" /\ isUploading = FALSE /\ isOpen = FALSE
  /\ parsedData = NoData /\ toast = ""
  /\ fileName = ""
  /\ db \in Stores(dataType)
  /\ pending = <<>> /\ importing = "idle" /\ batchId = 0 /\ started = 0
  /\ imports = <<>>
  /\ selectedImport = NoImport /\ isDeleteDialogOpen = FALSE /\ deleting = NotDeleting

(***************************************************************************)
(* The specifications: an upload with the Insights page at rest, the       *)
(* Insights page with no upload under way, and a page with its upload      *)
(* component and import history over the store.                            *)
(***************************************************************************)
vars == <<importVars, pageVars, storeVars>>

PageAtRest ==
  /\ production = <<>> /\ inventory = <<>> /\ sales = <<>> /\ workers = <<>>
  /\ loading = FALSE /\ reading = FALSE
  /\ insights = NoInsights /\ passed = NoInsights

UploadAtRest ==
  /\ dataType = "production" /\ file = OtherFile /\ upload = "idle"
  /\ isUploading = FALSE /\ isOpen = FALSE /\ parsedData = NoData /\ toast = ""

Init == ImportInit /\ PageAtRest /\ StoreAtRest

Next ==
  \/ handleFileSelect /\ UNCHANGED <<pageVars, storeVars>>
  \/ PapaComplete /\ UNCHANGED <<pageVars, storeVars>>
  \/ PapaError /\ UNCHANGED <<pageVars, storeVars>>
  \/ closeDialog /\ UNCHANGED <<pageVars, storeVars>>

Spec == Init /\ [][Next]_vars

InsightsNext ==
  \/ generateReport /\ UNCHANGED <<importVars, storeVars>>
  \/ reportReady /\ UNCHANGED <<importVars, storeVars>>
  \/ readRejected /\ UNCHANGED <<importVars, storeVars>>

InsightsInit == PageInit /\ UploadAtRest /\ StoreAtRest

InsightsSpec == InsightsInit /\ [][InsightsNext]_vars

\* the step that ends the awaits of lines 17-20
readsSettle == (readRejected \/ reportReady) /\ UNCHANGED <<importVars, storeVars>>

\* an awaited read settles in the end: it resolves or it rejects
InsightsFairSpec == InsightsInit /\ [][InsightsNext]_vars /\ WF_vars(readsSettle)

StoreInit == PageOpens /\ PageAtRest

StoreNext ==
  \/ component = "CSVUpload" /\ handleFileSelect /\ UNCHANGED <<pageVars, storeVars>>
  \/ component = "CSVUpload" /\ PapaComplete /\ UNCHANGED <<pageVars, storeVars>>
  \/ component = "CSVUpload" /\ PapaError /\ UNCHANGED <<pageVars, storeVars>>
  \/ closeDialog /\ UNCHANGED <<pageVars, storeVars>>
  \/ FileUpload_handleFileSelect /\ UNCHANGED pageVars
  \/ parseFileSettled /\ UNCHANGED pageVars
  \/ handleImport /\ UNCHANGED pageVars
  \/ importBatchAdded /\ UNCHANGED pageVars
  \/ importWritten /\ UNCHANGED pageVars
  \/ importRejected /\ UNCHANGED pageVars
  \/ loadImports /\ UNCHANGED pageVars
  \/ selectImport /\ UNCHANGED pageVars
  \/ cancelDelete /\ UNCHANGED pageVars
  \/ handleDeleteImport /\ UNCHANGED pageVars
  \/ recordsDeleted /\ UNCHANGED pageVars
  \/ importDeleted /\ UNCHANGED pageVars
  \/ deleteRejected /\ UNCHANGED pageVars

StoreSpec == StoreInit /\ [][StoreNext]_vars

(***************************************************************************)
(* Properties of the import.                                               *)
(***************************************************************************)

\* the fields each kind requires (lines 43, 67, 90, 110) and the list its
\* message names (lines 44, 68, 91, 111)
RequiredFields(type) ==
  CASE type = "production" -> {"date", "productType", "quantity"}
    [] type = "inventory" -> {"itemName", "stockKg"}
    [] type = "sales" -> {"date", "customer", "productType"}
    [] type = "workers" -> {"date", "name", "shift"}

FieldList(type) ==
  CASE type = "production" -> "date, productType, quantity"
    [] type = "inventory" -> "itemName, stockKg"
    [] type = "sales" -> "date, customer, productType"
    [] type = "workers" -> "date, name, shift"

\* the optional numeric fields of each kind's record
OptionalNumerics(type) ==
  CASE type = "production" -> {"target", "wasteKg"}
    [] type = "inventory" -> {"minStockKg"}
    [] type = "sales" -> {"amount", "revenue"}
    [] type = "workers" -> {"tasksDone"}

IsMissing(cell) == cell = Undefined \/ cell = Empty
LacksRequired(type, row) == \E f \in RequiredFields(type) : IsMissing(row[f])
LackingRows == {n \in DOMAIN file.rows : LacksRequired(dataType, file.rows[n])}
PassingRows == DOMAIN file.rows \ LackingRows
PassesRequired(row) == ~LacksRequired(dataType, row)

MissingMessage(type, n) ==
  "Row " \o ToString(n) \o ": Missing required fields (" \o FieldList(type) \o ")"

Count(seq, v) == Cardinality({i \in DOMAIN seq : seq[i] = v})

\* the parse of a readable CSV file has run to its end, one way or the other
ParseRan == file.csv /\ file.readable /\ upload \in {"resolved", "threw"}

\* C1: for every kind and every row sequence, each row missing (absent or
\* empty) a required field contributes no record and exactly one error
\* "Row {n}: Missing required fields (...)" with the kind's field list and
\* its 1-based position, whatever the other rows are.
C1_MissingRowsReported ==
  (ParseRan /\ LackingRows # {}) =>
    /\ upload = "resolved"
    /\ \A n \in LackingRows :
         Count(parsedData.errors, MissingMessage(dataType, n)) = 1
    /\ Len(parsedData.data) <= Cardinality(PassingRows)

\* C2: the parse entry point never raises and always completes with a
\* {data, errors, warnings} result, also for rows whose required fields are
\* all present but whose date text is no calendar date.
C2_ParseAlwaysResolves ==
  /\ upload # "threw"
  /\ upload = "resolved" => DOMAIN parsedData = {"data", "errors", "warnings"}

NoNumber(cell) == IsMissing(cell) \/ IsNaN(parseFloat(cell))

\* C3: for every row that passes the required-field check, each optional
\* numeric field of its record is a finite number, never NaN, and is 0
\* when the raw value is absent or cannot be parsed as a number.
C3_OptionalNumericsFinite ==
  (ParseRan /\ upload = "resolved" /\ PassingRows # {}) =>
    LET kept == SelectSeq(file.rows, PassesRequired)
    IN  /\ Len(parsedData.data) = Len(kept)
        /\ \A i \in DOMAIN kept : \A f \in OptionalNumerics(dataType) :
             /\ IsFinite(parsedData.data[i][f])
             /\ NoNumber(kept[i][f]) => parsedData.data[i][f] = Zero

NumberOf(cell) == OrZero(parseFloat(cell))

SoftRule(type, row) ==
  CASE type = "production" ->
         /\ FGt(NumberOf(row.target), Zero)
         /\ FGt(NumberOf(row.quantity), NumberOf(row.target))
    [] type = "inventory" -> FLt(NumberOf(row.stockKg), NumberOf(row.minStockKg))
    [] OTHER -> FALSE

SoftWarning(type, row, n) ==
  CASE type = "production" -> "Row " \o ToString(n) \o ": Quantity exceeds target"
    [] type = "inventory" ->
         "Row " \o ToString(n) \o ": " \o JoinChars(row.itemName.s)
         \o " is below minimum stock"
    [] OTHER -> ""

WarnedRows == {n \in PassingRows : SoftRule(dataType, file.rows[n])}

\* C4: a row that passes the required-field check yields exactly one record
\* and no error, and one warning exactly when its soft rule is triggered:
\* production when target > 0 and quantity > target, inventory when
\* stockKg < minStockKg.
C4_SoftRulesOnlyWarn ==
  (ParseRan /\ PassingRows # {}) =>
    /\ upload = "resolved"
    /\ Len(parsedData.data) = Cardinality(PassingRows)
    /\ Len(parsedData.errors) = Cardinality(LackingRows)
    /\ Len(parsedData.warnings) = Cardinality(WarnedRows)
    /\ \A n \in WarnedRows :
         Count(parsedData.warnings, SoftWarning(dataType, file.rows[n], n)) = 1

\* the data lines of a template: the lines after its header
ExampleLines(type) ==
  Cardinality({i \in 1..Len(generateSampleCSV(type)) : generateSampleCSV(type)[i] = "\n"})

\* C5: for each kind, the sample file of the kind parsed as that kind gives
\* no error and as many records as the template has example lines.
C5_SampleRoundTrip ==
  file.origin = "sample" =>
    /\ upload # "threw"
    /\ upload = "resolved" =>
         /\ parsedData.errors = <<>>
         /\ Len(parsedData.data) = ExampleLines(dataType)

C5_SampleParsed ==
  /\ file.origin = "sample" /\ upload = "resolved" /\ dataType = "production"
  /\ Len(parsedData.data) = 2
  /\ parsedData.data[2].productType = "Premium Shutter"
  /\ parsedData.data[2].wasteKg = Dec(32, 1)
  /\ parsedData.data[2].orderId = Null

(***************************************************************************)
(* Properties of the insights.                                             *)
(***************************************************************************)
ReportMade == insights # NoInsights

IsDecrease(anomaly) ==
  anomaly.immediateAction = "Review material stock levels and equipment status"
IsWaste(anomaly) == anomaly.issue = "Waste levels increased significantly"

\* the whole quantities of some records, added exactly
RECURSIVE Total(_, _)
Total(records, n) ==
  IF n = 0 THEN 0 ELSE Total(records, n - 1) + ToInt(records[n].quantity)

RecentTotal == LET week == Last7(sortedProduction(production)) IN Total(week, Len(week))
PreviousTotal == LET week == Prior7(sortedProduction(production)) IN Total(week, Len(week))

\* C6: with at least 14 production records and change the relative change,
\* in percent, of the average of the last 7 days against the 7 days before,
\* a production-decrease anomaly is emitted exactly when change < -10 (a
\* decrease of exactly 10% emits none); it is high when change < -20 and
\* medium otherwise.  With totals R and P > 0, change < -10 is 10 R < 9 P
\* and change < -20 is 10 R < 8 P.
C6_DecreaseThreshold ==
  (ReportMade /\ Len(production) >= 14 /\ PreviousTotal > 0) =>
    LET decrease == SelectSeq(insights.anomalies, IsDecrease)
    IN  /\ Len(decrease) = (IF 10 * RecentTotal < 9 * PreviousTotal THEN 1 ELSE 0)
        /\ \A i \in DOMAIN decrease :
             decrease[i].severity =
               (IF 10 * RecentTotal < 8 * PreviousTotal THEN "high" ELSE "medium")

LowStockIssue(item) == item.itemName \o " stock critically low"
LowItems == SelectSeq(inventory, LAMBDA item : FLt(item.stockKg, item.minStockKg))

\* C7: with fewer than 14 production records no production-decrease and no
\* waste anomaly is emitted, whatever the quantities and waste: the anomalies
\* are the low-stock anomalies only.
C7_NoTrendBelowFourteen ==
  (ReportMade /\ Len(production) < 14) =>
    /\ \A i \in DOMAIN insights.anomalies :
         ~IsDecrease(insights.anomalies[i]) /\ ~IsWaste(insights.anomalies[i])
    /\ Len(insights.anomalies) = Len(LowItems)
    /\ \A i \in DOMAIN LowItems :
         insights.anomalies[i].issue = LowStockIssue(LowItems[i])

\* thirteen records whose last week is 30% lower and wastes twice as much,
\* with one item low on stock
C7_ThirteenRecords ==
  /\ ReportMade /\ Len(production) = 13
  /\ production[13].quantity = FromInt(7) /\ production[1].quantity = FromInt(10)
  /\ production[13].wasteKg = FromInt(2) /\ production[1].wasteKg = FromInt(1)
  /\ Len(insights.anomalies) = 1
  /\ insights.anomalies[1].issue = "Paint stock critically low"

IsLowStock(anomaly) == ~IsDecrease(anomaly) /\ ~IsWaste(anomaly)

\* C8: exactly one low-stock anomaly for every item with stockKg below
\* minStockKg, in the items' order, and none for any other item; each has
\* severity high and evidence
\* "Current: {stockKg}{unit}, Minimum: {minStockKg}{unit}".
C8_LowStockAnomalies ==
  ReportMade =>
    LET low == SelectSeq(insights.anomalies, IsLowStock)
    IN  /\ Len(low) = Len(LowItems)
        /\ \A i \in DOMAIN LowItems :
             /\ low[i].issue = LowStockIssue(LowItems[i])
             /\ low[i].severity = "high"
             /\ low[i].evidence =
                  "Current: " \o NumberToString(LowItems[i].stockKg) \o LowItems[i].unit
                  \o ", Minimum: " \o NumberToString(LowItems[i].minStockKg)
                  \o LowItems[i].unit

\* an item at its minimum beside one below it
C8_GlueBelowFoilNot ==
  /\ ReportMade /\ Len(inventory) = 2
  /\ inventory[1].itemName = "Foil" /\ inventory[1].stockKg = inventory[1].minStockKg
  /\ inventory[2].itemName = "Glue"
  /\ Len(insights.anomalies) = 1
  /\ insights.anomalies[1].severity = "high"
  /\ insights.anomalies[1].evidence = "Current: 7.5kg, Minimum: 12.5kg"

FiveOverNothing(item) == item.minStockKg = Zero /\ item.stockKg = FromInt(5)

\* C9 as stated: an item with minStockKg = 0 and stockKg = 5 gets a forecast
\* with daysToDepletion = 50.
C9_ForecastOfFifty ==
  ReportMade =>
    \A i \in DOMAIN inventory :
      FiveOverNothing(inventory[i]) =>
        \E j \in DOMAIN insights.forecasts :
          /\ insights.forecasts[j].item = inventory[i].itemName
          /\ insights.forecasts[j].daysToDepletion = FromInt(50)

\* C9 amended: for an item with minStockKg = 0 and stockKg = 5 the estimate
\* is 5 over the floor of 0.1, that is 50, with no division by zero; as 50
\* is not below 30, no forecast is emitted for the item.
C9_FiftyDaysNoForecast ==
  ReportMade =>
    \A i \in DOMAIN inventory :
      FiveOverNothing(inventory[i]) =>
        /\ DaysToDepletion(inventory[i]) = FromInt(50)
        /\ \A j \in DOMAIN insights.forecasts :
             insights.forecasts[j].item # inventory[i].itemName

C9_SteelReported ==
  /\ ReportMade /\ Len(inventory) = 2
  /\ FiveOverNothing(inventory[1]) /\ inventory[1].itemName = "Steel"
  /\ inventory[2].itemName = "Paint"
  /\ Len(insights.forecasts) = 1 /\ insights.forecasts[1].item = "Paint"

IsPaint(item) ==
  /\ item.itemName = "Paint" /\ item.unit = "L"
  /\ item.stockKg = FromInt(40) /\ item.minStockKg = FromInt(100)

\* C10: an inventory holding Paint with stock 40 L and minimum 100 L gives
\* a high anomaly with evidence "Current: 40L, Minimum: 100L", an inventory
\* forecast for Paint of 8 days, and a priority-2 recommendation "Order
\* Paint within next 3 days" placed after the priority-1 recommendation made
\* from the anomaly.
C10_PaintScenario ==
  (ReportMade /\ \E i \in DOMAIN inventory : IsPaint(inventory[i])) =>
    /\ \E i \in DOMAIN insights.anomalies :
         /\ insights.anomalies[i].severity = "high"
         /\ insights.anomalies[i].evidence = "Current: 40L, Minimum: 100L"
    /\ \E i \in DOMAIN insights.forecasts :
         /\ insights.forecasts[i].item = "Paint"
         /\ insights.forecasts[i].type = "inventory"
         /\ insights.forecasts[i].daysToDepletion = FromInt(8)
    /\ \E i, j \in DOMAIN insights.recommendations :
         /\ i < j
         /\ insights.recommendations[i].priority = 1
         /\ insights.recommendations[i].action =
              "Reorder Paint immediately - production may be affected"
         /\ insights.recommendations[j].priority = 2
         /\ insights.recommendations[j].action = "Order Paint within next 3 days"
         /\ \A k \in DOMAIN insights.recommendations :
              insights.recommendations[k].priority = 1 => k < j

C10_PaintReported ==
  /\ ReportMade /\ Len(inventory) = 1 /\ IsPaint(inventory[1])
  /\ Len(production) = 14
  /\ Len(insights.recommendations) >= 2

Fallback ==
  [action |-> "Continue current operations - all metrics healthy",
   estimatedImpact |-> "Maintain efficiency and quality standards",
   difficulty |-> "low", priority |-> 3]

\* C11: the fallback recommendation is emitted exactly when the anomaly list
\* and the forecast list are both empty, and it is then the only
\* recommendation; on empty collections the report holds exactly that
\* recommendation and its summary begins "Factory operations overview: All
\* systems operating normally. " (nothing follows, there being no forecast).
C11_FallbackOnlyWhenHealthy ==
  ReportMade =>
    LET healthy == insights.anomalies = <<>> /\ insights.forecasts = <<>>
    IN  /\ (\E i \in DOMAIN insights.recommendations :
              insights.recommendations[i] = Fallback) <=> healthy
        /\ healthy => insights.recommendations = <<Fallback>>
        /\ (production = <<>> /\ inventory = <<>>) =>
             /\ insights.recommendations = <<Fallback>>
             /\ insights.summary =
                  "Factory operations overview: All systems operating normally. "

C11_EmptyCollectionsReported ==
  /\ ReportMade /\ production = <<>> /\ inventory = <<>>
  /\ insights.recommendations = <<Fallback>>

HighAnomalies == SelectSeq(insights.anomalies, LAMBDA a : a.severity = "high")

UrgentForecasts ==
  SelectSeq(insights.forecasts,
            LAMBDA f : f.type = "inventory" /\ FLt(f.daysToDepletion, FromInt(14)))

\* C12: the recommendations are, in this order: one of priority 1 for each
\* high anomaly, with that anomaly's immediate action, in anomaly order; one
\* of priority 2 for each inventory forecast below 14 days, in forecast
\* order; the priority-3 fallback when there is neither anomaly nor
\* forecast.  Medium anomalies and production forecasts give none, and the
\* priorities ascend.
C12_RecommendationList ==
  ReportMade =>
    LET recs == insights.recommendations
        h == Len(HighAnomalies)
        u == Len(UrgentForecasts)
        healthy == insights.anomalies = <<>> /\ insights.forecasts = <<>>
    IN  /\ Len(recs) = h + u + (IF healthy THEN 1 ELSE 0)
        /\ \A i \in 1..h :
             /\ recs[i].priority = 1
             /\ recs[i].action = HighAnomalies[i].immediateAction
        /\ \A i \in 1..u :
             /\ recs[h + i].priority = 2
             /\ recs[h + i].action =
                  "Order " \o UrgentForecasts[i].item \o " within next 3 days"
        /\ healthy => recs[h + u + 1] = Fallback
        /\ \A i, j \in DOMAIN recs : i < j => recs[i].priority <= recs[j].priority

C12_TwoOfEachPriority ==
  /\ ReportMade
  /\ Len(HighAnomalies) = 2 /\ Len(UrgentForecasts) = 2
  /\ HighAnomalies[1].immediateAction # HighAnomalies[2].immediateAction
  /\ UrgentForecasts[1].item # UrgentForecasts[2].item
  /\ Len(insights.recommendations) = 4

IssuesText(n) ==
  CASE n = 0 -> "All systems operating normally. "
    [] n = 1 -> "1 issue detected requiring attention. "
    [] OTHER -> ToString(n) \o " issues detected requiring attention. "

AlertsText(m) ==
  CASE m = 0 -> ""
    [] m = 1 -> "1 forecast alert for inventory management. "
    [] OTHER -> ToString(m) \o " forecast alerts for inventory management. "

\* C13: the summary is "Factory operations overview: ", then "All systems
\* operating normally. " for no anomaly, "1 issue detected requiring
\* attention. " for one and "{N} issues detected requiring attention. " for
\* more, then, only with forecasts, "1 forecast alert for inventory
\* management. " for one and "{M} forecast alerts for inventory management. "
\* for more; N and M are the lengths of the returned lists.
C13_SummaryText ==
  ReportMade =>
    insights.summary =
      "Factory operations overview: " \o IssuesText(Len(insights.anomalies))
      \o AlertsText(Len(insights.forecasts))

C13_OneIssueTwoAlerts ==
  /\ ReportMade
  /\ Len(insights.anomalies) = 1 /\ Len(insights.forecasts) = 2
  /\ insights.summary =
       "Factory operations overview: 1 issue detected requiring attention. "
       \o "2 forecast alerts for inventory management. "

ProductionAcceptable(row) ==
  /\ ~IsMissing(row.date)
  /\ ~IsMissing(row.productType)
  /\ ~NoNumber(row.quantity)

UnparseableQuantityRows ==
  {n \in DOMAIN file.rows :
     ~IsMissing(file.rows[n].quantity) /\ NoNumber(file.rows[n].quantity)}

\* C19: a production row yields a record exactly when its date and product
\* type are non-empty and its quantity parses as a number, zero included; a
\* row whose quantity does not parse yields no record and the
\* required-fields error of its position.
C19_QuantityMustParse ==
  (ParseRan /\ upload = "resolved" /\ dataType = "production") =>
    /\ Len(parsedData.data) =
         Cardinality({n \in DOMAIN file.rows : ProductionAcceptable(file.rows[n])})
    /\ \A n \in UnparseableQuantityRows :
         Count(parsedData.errors, MissingMessage(dataType, n)) = 1

\* the texts the current time can be written as
NowTexts == {toISOString(now) : now \in Nows}

NoDate(cell) == IsMissing(cell) \/ ~DateParse(ToStr(cell)).ok

\* C20: every inventory row that passes the required-field check yields a
\* record whose unit is "kg" when the unit cell is absent or empty and the
\* cell's text otherwise, and whose lastUpdated is the current time when the
\* cell is absent, empty or no date, and the cell's date in normalized ISO
\* form otherwise.
C20_InventoryDefaults ==
  (ParseRan /\ dataType = "inventory" /\ PassingRows # {}) =>
    /\ upload = "resolved"
    /\ LET kept == SelectSeq(file.rows, PassesRequired)
       IN  /\ Len(parsedData.data) = Len(kept)
           /\ \A i \in DOMAIN kept :
                /\ parsedData.data[i].unit =
                     (IF IsMissing(kept[i].unit) THEN "kg"
                      ELSE JoinChars(kept[i].unit.s))
                /\ IF NoDate(kept[i].lastUpdated)
                   THEN parsedData.data[i].lastUpdated \in NowTexts
                   ELSE parsedData.data[i].lastUpdated =
                          toISOString(DateParse(ToStr(kept[i].lastUpdated)))

(***************************************************************************)
(* Properties of the import into the store and of the import history.      *)
(***************************************************************************)

\* a step of handleImport in which the store carries out one of its calls
ImportWrites == importing' # importing /\ db' # db

\* C15: a step in which handleImport writes to the store, the batch entry
\* or the records, is taken only with a parsed result whose errors list is
\* empty; its warnings may be any.
C15_ErrorsBlockImport ==
  [][ImportWrites => (parsedData # NoData /\ Len(parsedData.errors) = 0)]_vars

\* the batch entry of a file with a warning is written, the records are
\* about to be
C15_ImportedWithWarnings ==
  /\ importing = "writing" /\ component = "FileUpload"
  /\ Len(parsedData.warnings) > 0
  /\ \E i \in DOMAIN db.importBatches : db.importBatches[i].id = batchId

\* the record refers to batch b
RefersTo(record, b) == "importBatchId" \in DOMAIN record /\ record.importBatchId = b

\* the two steps in which the store carries out handleDeleteImport's calls
DeletesRecords == deleting.await = "records" /\ deleting'.await = "batch"
DeleteSucceeds ==
  deleting.await = "batch" /\ deleting' = NotDeleting /\ selectedImport' = NoImport

ImportCompletes == importing = "writing" /\ importing' = "idle" /\ parsedData' = NoData

\* the records the step has added to the kind's table
Written == SubSeq(db'.table, Len(db.table) + 1, Len(db'.table))

\* C17: when an import completes, every record it has written refers to the
\* one batch entry made for this import, and that entry's recordCount is
\* the number of records in the table that refer to it.
C17_RecordsCarryTheirBatch ==
  [][ImportCompletes =>
       /\ Len(Written) = Len(parsedData.data)
       /\ \A i \in DOMAIN Written : RefersTo(Written[i], batchId)
       /\ \E j \in DOMAIN db'.importBatches :
            /\ db'.importBatches[j].id = batchId
            /\ db'.importBatches[j].recordCount =
                 Cardinality({i \in DOMAIN db'.table : RefersTo(db'.table[i], batchId)})
    ]_vars

\* the step in which handleImport ends because the bulk write was refused
BulkWriteFails == importing = "writing" /\ importing' = "idle" /\ parsedData' # NoData

\* C18: when the bulk write of an import is refused, the store holds no
\* batch entry made for this import and no record of it; when it is carried
\* out, all the records are in the table and the batch entry made for the
\* import is in importBatches.
C18_ImportAllOrNothing ==
  [][/\ BulkWriteFails =>
          /\ \A j \in DOMAIN db'.importBatches : db'.importBatches[j].id # batchId
          /\ \A i \in DOMAIN db'.table : ~RefersTo(db'.table[i], batchId)
          /\ Len(db'.table) = Len(db.table)
     /\ ImportCompletes =>
          /\ Len(Written) = Len(parsedData.data)
          /\ batchId # 0 =>
               \E j \in DOMAIN db'.importBatches : db'.importBatches[j].id = batchId
    ]_vars

NonNegative(x) == ~IsNaN(x) /\ ~FLt(x, Zero)

\* C21: every production record the validator makes has quantity >= 0,
\* target >= 0 and wasteKg >= 0.
C21_ProductionNonNegative ==
  (ParseRan /\ upload = "resolved" /\ dataType = "production") =>
    \A i \in DOMAIN parsedData.data :
      /\ NonNegative(parsedData.data[i].quantity)
      /\ NonNegative(parsedData.data[i].target)
      /\ NonNegative(parsedData.data[i].wasteKg)

\* C22: in the anomaly list the production-decrease anomaly, if any, is
\* first, the waste anomaly, if any, comes next, and the low-stock anomalies
\* come last, one for each item below its minimum in the order of the
\* inventory; the list has at most 2 + |inventory| entries.
C22_AnomalyOrder ==
  ReportMade =>
    LET list == insights.anomalies
        decreases == Len(SelectSeq(list, IsDecrease))
        wastes == Len(SelectSeq(list, IsWaste))
    IN  /\ decreases <= 1 /\ wastes <= 1
        /\ Len(list) = decreases + wastes + Len(LowItems)
        /\ Len(list) <= 2 + Len(inventory)
        /\ \A i \in DOMAIN list :
             /\ IsDecrease(list[i]) <=> (decreases = 1 /\ i = 1)
             /\ IsWaste(list[i]) <=> (wastes = 1 /\ i = decreases + 1)
             /\ i > decreases + wastes =>
                  list[i].issue = LowStockIssue(LowItems[i - decreases - wastes])

\* a report with one anomaly of each kind
C22_OneOfEachKind ==
  /\ ReportMade /\ Len(insights.anomalies) = 3
  /\ IsDecrease(insights.anomalies[1])
  /\ IsWaste(insights.anomalies[2])
  /\ insights.anomalies[3].issue = "Paint stock critically low"

\* stock and minimum in tenths, and the divisor max(minStockKg * 0.05, 0.1)
\* in two-hundredths: the quotient is 20 * StockTenths / DivisorUnits
StockTenths(item) == ToInt(FMul(item.stockKg, FromInt(10)))
DivisorUnits(item) ==
  LET minTenths == ToInt(FMul(item.minStockKg, FromInt(10)))
  IN  IF minTenths > 20 THEN minTenths ELSE 20

RunsOut(item) ==
  StockTenths(item) > 0 /\ 20 * StockTenths(item) < 30 * DivisorUnits(item)

\* the quotient rounded to the nearest integer
RoundedDays(item) ==
  (40 * StockTenths(item) + DivisorUnits(item)) \div (2 * DivisorUnits(item))

IsInventoryForecast(forecast) == forecast.type = "inventory"

\* C23: the inventory forecasts are, in the order of the inventory, one for
\* each item with stockKg > 0 and stockKg / max(minStockKg * 0.05, 0.1) < 30
\* and none for any other item; each has confidence 0.75 and daysToDepletion
\* the quotient rounded to the nearest integer.
C23_InventoryForecasts ==
  ReportMade =>
    LET made == SelectSeq(insights.forecasts, IsInventoryForecast)
        due == SelectSeq(inventory, RunsOut)
    IN  /\ Len(made) = Len(due)
        /\ \A i \in DOMAIN due :
             /\ made[i].item = due[i].itemName
             /\ made[i].confidence = Dec(75, 2)
             /\ made[i].daysToDepletion = FromInt(RoundedDays(due[i]))

\* an item with no stock left beside one with twenty days of stock
C23_ScrewsAndFoil ==
  /\ ReportMade /\ Len(inventory) = 2
  /\ inventory[1].itemName = "Screws" /\ inventory[1].stockKg = Zero
  /\ inventory[2].itemName = "Foil"
  /\ Len(insights.forecasts) = 1
  /\ insights.forecasts[1].item = "Foil"
  /\ insights.forecasts[1].daysToDepletion = FromInt(20)

IsProductionForecast(forecast) == forecast.type = "production"

\* 28 times the least-squares slope of quantity against 0..6 over the last
\* seven records as stored: the sum of (x - 3) * quantity, the squares of
\* x - 3 adding up to 28
SlopeTimes28 ==
  LET n == Len(production)
      RECURSIVE Upto(_)
      Upto(x) == IF x < 0 THEN 0
                 ELSE Upto(x - 1) + (x - 3) * ToInt(production[n - 6 + x].quantity)
  IN  Upto(6)

TrendDue ==
  Len(production) >= 7 /\ (SlopeTimes28 < -140 \/ SlopeTimes28 > 140)

\* C24: the forecasts hold the entry Production Trend (daysToDepletion 0,
\* confidence 0.65, type production) exactly when there are at least seven
\* production records and the slope over the last seven, in stored order, is
\* below -5 or above 5; it is then the last entry, every entry before it
\* being an inventory forecast, and the list has at most |inventory| + 1
\* entries.
C24_ProductionTrend ==
  ReportMade =>
    LET list == insights.forecasts
    IN  /\ Len(SelectSeq(list, IsProductionForecast)) = (IF TrendDue THEN 1 ELSE 0)
        /\ TrendDue =>
             list[Len(list)] = [item |-> "Production Trend", daysToDepletion |-> Zero,
                                confidence |-> Dec(65, 2), type |-> "production"]
        /\ \A i \in DOMAIN list : IsProductionForecast(list[i]) => i = Len(list)
        /\ Len(list) <= Len(inventory) + 1

\* the record stored last carries the earliest date: a rising trend in
\* stored order, none in the order of the dates
C24_RisingAsStored ==
  /\ ReportMade /\ Len(production) = 15
  /\ production[15].date = DayText(1) /\ production[15].quantity = FromInt(100)
  /\ Len(insights.forecasts) = 2
  /\ IsInventoryForecast(insights.forecasts[1])
  /\ insights.forecasts[2].item = "Production Trend"

\* the whole waste of some records, added exactly
RECURSIVE WasteTotal(_, _)
WasteTotal(records, n) ==
  IF n = 0 THEN 0 ELSE WasteTotal(records, n - 1) + ToInt(records[n].wasteKg)

RecentWaste == LET week == Last7(sortedProduction(production)) IN WasteTotal(week, Len(week))
PreviousWaste == LET week == Prior7(sortedProduction(production)) IN WasteTotal(week, Len(week))

\* recentWaste > previousWaste * 1.2 over the totals: a ratio over no
\* quantity is infinite when there is waste and undefined when there is
\* none, and nothing exceeds an infinite or an undefined rate
WasteDue ==
  IF PreviousTotal = 0 THEN FALSE
  ELSE IF RecentTotal = 0 THEN RecentWaste > 0
  ELSE 10 * RecentWaste * PreviousTotal > 12 * PreviousWaste * RecentTotal

\* C25: with at least 14 production records a waste anomaly is emitted
\* exactly when recentWaste > previousWaste * 1.2, each rate being the sum of
\* wasteKg over the sum of quantity of its own seven records; it is always
\* of severity medium, and a production-decrease anomaly in the same list
\* changes nothing.
C25_WasteThreshold ==
  (ReportMade /\ Len(production) >= 14) =>
    LET wastes == SelectSeq(insights.anomalies, IsWaste)
    IN  /\ Len(wastes) = (IF WasteDue THEN 1 ELSE 0)
        /\ \A i \in DOMAIN wastes : wastes[i].severity = "medium"

\* a high decrease and a waste anomaly in one list
C25_WasteAfterDecrease ==
  /\ ReportMade /\ Len(production) = 14 /\ inventory = <<>>
  /\ Len(insights.anomalies) = 2
  /\ IsDecrease(insights.anomalies[1]) /\ insights.anomalies[1].severity = "high"
  /\ IsWaste(insights.anomalies[2]) /\ insights.anomalies[2].severity = "medium"
  /\ WasteDue

AnomalyRecords ==
  [issue : STRING, evidence : STRING, likelyCauses : Seq(STRING),
   immediateAction : STRING, severity : {"low", "medium", "high"}]

\* C26: for at least 14 production records of which the last seven, or the
\* seven before them, have total quantity 0, detectAnomalies has a value, a
\* list of well-formed anomalies, and the list holds no production-decrease
\* anomaly when the earlier seven average 0; the same is true of the
\* anomalies of a report made from such records.
C26_ZeroDenominators ==
  (Len(production) >= 14 /\ (PreviousTotal = 0 \/ RecentTotal = 0)) =>
    LET Returned(anomalies) ==
          /\ anomalies \in Seq(AnomalyRecords)
          /\ PreviousTotal = 0 => SelectSeq(anomalies, IsDecrease) = <<>>
    IN  /\ Returned(detectAnomalies(production, inventory, <<>>))
        /\ ReportMade => Returned(insights.anomalies)

\* nothing produced in the earlier week, ten a day in the last
C26_NothingBefore ==
  /\ ReportMade /\ Len(production) = 14
  /\ PreviousTotal = 0 /\ RecentTotal = 70
  /\ insights.anomalies = <<>>

\* C27: while the page's first report is being made from the production
\* and inventory tables at hand, generateInsights gives the same result
\* (anomalies, forecasts, recommendations, summary) for every pair of sales
\* and worker tables, and detectAnomalies the same list for every worker
\* table; a report just made is the result for no sales and no workers.
C27_UnusedInputs ==
  /\ (reading /\ ~ReportMade) =>
       LET Same(result, list) ==
             \A w \in WorkerTables :
               /\ w # <<>> => detectAnomalies(production, inventory, w) = list
               /\ \A s \in SalesTables :
                    (s # <<>> \/ w # <<>>) =>
                      generateInsights(production, inventory, s, w) = result
       IN  Same(generateInsights(production, inventory, <<>>, <<>>),
                detectAnomalies(production, inventory, <<>>))
  /\ (ReportMade /\ ~loading) =>
       insights = generateInsights(production, inventory, <<>>, <<>>)

\* a report with three anomalies, made beside a sale and two workers
C27_ReportBesideStaff ==
  /\ ReportMade /\ Len(sales) = 1 /\ Len(workers) = 2
  /\ Len(insights.anomalies) = 3
  /\ insights.summary = "Factory operations overview: 3 issues detected requiring attention. 1 forecast alert for inventory management. "

\* C30: every generateReport that sets loading is followed by a state in
\* which loading is false again, whether the awaited reads resolve or one of
\* them rejects; and no generateReport starts while loading is true.
C30_LoadingEnds ==
  /\ loading ~> ~loading
  /\ [][loading => ~generateReport]_vars

SomeStockBelowMinimum(item) ==
  FGt(item.stockKg, Zero) /\ FLt(item.stockKg, item.minStockKg)

\* C29: for every inventory item with 0 < stockKg < minStockKg the report
\* holds a high low-stock anomaly and an inventory forecast for that item,
\* at least one recommendation of priority 1, and no fallback
\* recommendation.
C29_LowItemsAnomalyAndForecast ==
  ReportMade =>
    \A i \in DOMAIN inventory :
      SomeStockBelowMinimum(inventory[i]) =>
        /\ \E a \in DOMAIN insights.anomalies :
             /\ insights.anomalies[a].issue = LowStockIssue(inventory[i])
             /\ insights.anomalies[a].severity = "high"
        /\ \E f \in DOMAIN insights.forecasts :
             /\ insights.forecasts[f].type = "inventory"
             /\ insights.forecasts[f].item = inventory[i].itemName
             /\ FLt(insights.forecasts[f].daysToDepletion, FromInt(30))
        /\ \E r \in DOMAIN insights.recommendations :
             insights.recommendations[r].priority = 1
        /\ \A r \in DOMAIN insights.recommendations :
             insights.recommendations[r] # Fallback

\* Glue alone, 7.5 kg against a minimum of 12.5 kg: twelve days of stock
C29_GlueAlone ==
  /\ ReportMade /\ Len(inventory) = 1
  /\ inventory[1].itemName = "Glue" /\ SomeStockBelowMinimum(inventory[1])
  /\ Len(insights.anomalies) = 1
  /\ Len(insights.forecasts) = 1
  /\ insights.forecasts[1].daysToDepletion = FromInt(12)
  /\ insights.recommendations[1].priority = 1

\* the field that names a record of each kind
NameField(type) ==
  CASE type = "production" -> "productType"
    [] type = "inventory" -> "itemName"
    [] type = "sales" -> "customer"
    [] type = "workers" -> "name"

\* the row numbers of a set, smallest first
Ascending(rows) ==
  SelectSeq([n \in 1..Len(file.rows) |-> n], LAMBDA n : n \in rows)

\* data, errors and warnings account for the rows, each in the rows' order
Accounted(result) ==
  LET kept == Ascending(PassingRows)
      lacking == Ascending(LackingRows)
      warned == Ascending(WarnedRows)
  IN  /\ Len(result.data) + Len(result.errors) = Len(file.rows)
      /\ Len(result.warnings) <= Len(result.data)
      /\ Len(result.data) = Len(kept)
      /\ \A i \in DOMAIN kept :
           result.data[i][NameField(dataType)] =
             JoinChars(file.rows[kept[i]][NameField(dataType)].s)
      /\ result.errors = [i \in DOMAIN lacking |-> MissingMessage(dataType, lacking[i])]
      /\ result.warnings =
           [i \in DOMAIN warned |->
              SoftWarning(dataType, file.rows[warned[i]], warned[i])]

\* C28: for every kind and every input of R rows the validator gives a
\* result with |data| + |errors| = R and |warnings| <= |data|, the records
\* in the order of their rows, and the errors and the warnings in ascending
\* order of row number.
C28_RowsAccounted ==
  ParseRan => (upload = "resolved" /\ Accounted(parsedData))

====
